---- MODULE Spec2Model ----
(***************************************************************************)
(* A model of the customer/order analytics back end: the relational store  *)
(* (tables customers and orders), the CSV and XML ingestion pipelines, the *)
(* store adapter's pooled, scoped cursor, and the two KPI engines (one     *)
(* aggregate query per KPI; in-memory frames loaded once).                 *)
(*                                                                         *)
(* Text values are sequences of one-character strings, so that trimming    *)
(* and mobile-number normalisation are computed character by character.    *)
(* Amounts are whole numbers (the smallest currency unit); a date-time is  *)
(* a whole number of days.  An SQL NULL / pandas NaN / Python None cell is *)
(* the record Null; any other cell v is Val(v).                            *)
(***************************************************************************)
EXTENDS Integers, Sequences, FiniteSets, TLC

VARIABLES
    customers,      \* table customers: a set of rows, customer_id the key
    orders,         \* table orders: a set of rows, order_id the key
    customers_df,   \* MemoryBasedKPIEngine.customers_df (None or a frame)
    orders_df,      \* MemoryBasedKPIEngine.orders_df (None or a frame)
    last_loaded,    \* MemoryBasedKPIEngine.last_loaded
    now,            \* the wall clock, in days
    result,         \* what the last public operation returned (or raised)
    first_run,      \* what the first of two runs over one file left behind
    loading,        \* how far a load_data() run step by step has come
    pool,           \* the connection pool and the state of its connections
    callers         \* the position of each caller of get_cursor

vars == <<customers, orders, customers_df, orders_df, last_loaded, now, result,
          first_run, loading, pool, callers>>

engine_vars == <<customers_df, orders_df, last_loaded>>
pool_vars == <<pool, callers>>

(***************************************************************************)
(* Bounds of the model.                                                    *)
(***************************************************************************)
MaxCustomers == 2
MaxOrders == 2

(***************************************************************************)
(* Cells.                                                                  *)
(***************************************************************************)
Null == [null |-> TRUE, v |-> 0]
Val(x) == [null |-> FALSE, v |-> x]
IsNull(c) == c.null

(***************************************************************************)
(* Small helpers over finite sets and sequences.                           *)
(***************************************************************************)
Range(s) == {s[i] : i \in DOMAIN s}

RECURSIVE SeqsOf(_)
SeqsOf(S) ==
    IF S = {} THEN {<<>>}
    ELSE UNION {{<<x>> \o s : s \in SeqsOf(S \ {x})} : x \in S}

RECURSIVE SumSeq(_)
SumSeq(s) == IF s = <<>> THEN 0 ELSE Head(s) + SumSeq(Tail(s))

RECURSIVE SumAmount(_)
SumAmount(S) ==
    IF S = {} THEN 0
    ELSE LET o == CHOOSE x \in S : TRUE
         IN o.total_amount + SumAmount(S \ {o})

RECURSIVE MaxOf(_)
MaxOf(S) ==
    LET x == CHOOSE y \in S : TRUE
    IN IF S = {x} THEN x
       ELSE LET m == MaxOf(S \ {x}) IN IF x > m THEN x ELSE m

\* Every listing of the rows of S in which no row comes before a row that
\* must precede it: the orders an ORDER BY / sort_values may produce (rows
\* that tie on the sort key come in any order).
Sorted(S, Precedes(_, _)) ==
    {s \in SeqsOf(S) :
        \A i, j \in DOMAIN s : i < j => ~Precedes(s[j], s[i])}

(***************************************************************************)
(* The values the store content is drawn from.                             *)
(***************************************************************************)
MobileA == <<"9", "8", "7", "6", "5", "4", "3", "2">>
MobileB == <<"+", "9", "1", "9", "8", "7", "6", "5", "4">>
MobileC == <<"5", "5", "5", "0", "1", "0", "0", "1">>
RegionN == <<"N", "o">>
RegionS == <<"S", "o">>

CustomerKeys == <<<<"C", "1">>, <<"C", "2">>, <<"C", "3">>, <<"C", "4">>>>
CustomerNames == <<<<"A", "n">>, <<"B", "o">>, <<"C", "y">>, <<"D", "i">>>>
OrderKeys == <<<<"O", "1">>, <<"O", "2">>, <<"O", "3">>, <<"O", "4">>>>

CustomerMobiles == <<MobileA, MobileB>>
Regions == <<RegionN, RegionS>>
OrderMobiles == <<MobileA, MobileB, MobileC>>
Amounts == <<1, 2>>
SkuX == <<"S", "K", "U">>

StartDay == 60
OrderDays == <<59>>

\* Customer number i of a table whose rows take their (mobile, region) from
\* the choice ch.
CustomerRow(i, ch) ==
    [customer_id |-> CustomerKeys[i], customer_name |-> CustomerNames[i],
     mobile_number |-> CustomerMobiles[ch[1]], region |-> Regions[ch[2]]]

OrderRow(i, ch) ==
    [order_id |-> OrderKeys[i], mobile_number |-> OrderMobiles[ch[1]],
     order_date_time |-> OrderDays[ch[3]], sku_id |-> SkuX, sku_count |-> 1,
     total_amount |-> Amounts[ch[2]]]

\* ch1 comes no later than ch2 in the dictionary order of choices.
ChoiceLeq(c1, c2) ==
    \E k \in 1..(Len(c1) + 1) :
        /\ \A j \in 1..(k - 1) : c1[j] = c2[j]
        /\ k <= Len(c1) => c1[k] < c2[k]

\* The contents of a table of at most n rows, one for each way of giving the
\* rows their non-key values; the keys are handed out in order, so two
\* contents that differ only by renaming keys are listed once.
TableContents(n, Choices, Row(_, _)) ==
    UNION {
        {{Row(i, f[i]) : i \in 1..k} :
            f \in {g \in [1..k -> Choices] :
                      \A i \in 1..(k - 1) : ChoiceLeq(g[i], g[i + 1])}}
        : k \in 0..n}

CustomerChoices ==
    {<<m, r>> : m \in DOMAIN CustomerMobiles, r \in DOMAIN Regions}
OrderChoices ==
    {<<m, a, d>> : m \in DOMAIN OrderMobiles, a \in DOMAIN Amounts,
                   d \in DOMAIN OrderDays}

CustomerTables == TableContents(MaxCustomers, CustomerChoices, CustomerRow)
OrderTables == TableContents(MaxOrders, OrderChoices, OrderRow)

(***************************************************************************)
(* Result formatting shared by the table engine's KPIs (BaseKPI).          *)
(***************************************************************************)
DaysPerMonth == 30
MonthOf(day) == day \div DaysPerMonth

Frac(sum, n) == <<sum, n>>

KpiNames == {"repeat_customers", "monthly_trends", "regional_revenue", "top_customers"}

KpiTitle(k) ==
    CASE k = "repeat_customers" -> "Repeat Customers"
      [] k = "monthly_trends" -> "Monthly Order Trends"
      [] k = "regional_revenue" -> "Regional Revenue"
      [] k = "top_customers" -> "Top Customers (Last 30 Days)"

KpiDescription(k) ==
    CASE k = "repeat_customers" -> "Customers who have placed more than one order"
      [] k = "monthly_trends" -> "Orders and revenue aggregated by month"
      [] k = "regional_revenue" -> "Total revenue by customer region"
      [] k = "top_customers" -> "Top 10 customers by spending in the last 30 days"

\* BaseKPI._format_result: the base fields, then result.update(metadata).
FormatResult(k, data, metadata, t) ==
    metadata @@
    [kpi_name |-> KpiTitle(k), description |-> KpiDescription(k), data |-> data,
     calculated_at |-> t, success |-> TRUE]

\* BaseKPI._format_error.
FormatError(k, err, t) ==
    [kpi_name |-> KpiTitle(k), description |-> KpiDescription(k), data |-> Null,
     calculated_at |-> t, success |-> FALSE, error |-> err]

\* The sum of a column of cells as pandas' Series.sum() computes it: NULL
\* cells are skipped.
SumCells(rows, col) ==
    SumSeq([i \in DOMAIN rows |->
               IF IsNull(rows[i][col]) THEN 0 ELSE rows[i][col].v])

SumColumn(rows, col) == SumSeq([i \in DOMAIN rows |-> rows[i][col]])

(***************************************************************************)
(* The table engine: one aggregate query per KPI.                          *)
(***************************************************************************)
\* The orders an SQL join on mobile_number pairs with customer c.
Matching(c, os) == {o \in os : o.mobile_number = c.mobile_number}

\* SELECT ... FROM customers c INNER JOIN orders o ... GROUP BY c.customer_id,
\* c.customer_name HAVING COUNT(o.order_id) > 1.
RepeatCustomersQuery(cs, os) ==
    {[customer_id |-> c.customer_id, customer_name |-> c.customer_name,
      order_count |-> Cardinality(Matching(c, os)),
      total_spent |-> SumAmount(Matching(c, os))] :
        c \in {x \in cs : Cardinality(Matching(x, os)) > 1}}

\* ORDER BY order_count DESC, total_spent DESC.
RepeatPrecedes(a, b) ==
    \/ a.order_count > b.order_count
    \/ a.order_count = b.order_count /\ a.total_spent > b.total_spent

RepeatMetadata(rows) ==
    [total_repeat_customers |-> Len(rows),
     total_orders |-> SumColumn(rows, "order_count"),
     total_revenue |-> SumColumn(rows, "total_spent")]

\* RepeatCustomersKPI.calculate: the envelopes it may return (one for each
\* order the store may list tied rows in); fails says the query raised.
RepeatCustomersKPI(cs, os, fails, t) ==
    IF fails THEN {FormatError("repeat_customers", "store error", t)}
    ELSE {FormatResult("repeat_customers", rows, RepeatMetadata(rows), t) :
            rows \in Sorted(RepeatCustomersQuery(cs, os), RepeatPrecedes)}

\* A query whose total_orders counts the customers of the month, not its
\* orders.
MonthlyTrendsQuery_CountsCustomers(os) ==
    {LET g == {o \in os : MonthOf(o.order_date_time) = m}
     IN [month_year |-> m,
         total_orders |-> Cardinality({o.mobile_number : o \in g}),
         total_revenue |-> SumAmount(g),
         avg_order_value |-> Frac(SumAmount(g), Cardinality(g)),
         unique_customers |-> Cardinality({o.mobile_number : o \in g})] :
        m \in {MonthOf(o.order_date_time) : o \in os}}

\* SELECT DATE_FORMAT(order_date_time, '%Y-%m') ... FROM orders GROUP BY it.
MonthlyTrendsQuery(os) ==
    {LET g == {o \in os : MonthOf(o.order_date_time) = m}
     IN [month_year |-> m, total_orders |-> Cardinality(g),
         total_revenue |-> SumAmount(g),
         avg_order_value |-> Frac(SumAmount(g), Cardinality(g)),
         unique_customers |-> Cardinality({o.mobile_number : o \in g})] :
        m \in {MonthOf(o.order_date_time) : o \in os}}

\* ORDER BY month_year ASC.
MonthPrecedes(a, b) == a.month_year < b.month_year

MonthlyMetadata(rows) ==
    [total_months |-> Len(rows),
     total_orders |-> SumColumn(rows, "total_orders"),
     total_revenue |-> SumColumn(rows, "total_revenue"),
     avg_monthly_orders |->
        IF rows = <<>> THEN Frac(0, 1)
        ELSE Frac(SumColumn(rows, "total_orders"), Len(rows))]

MonthlyOrderTrendsKPI(os, fails, t) ==
    IF fails THEN {FormatError("monthly_trends", "store error", t)}
    ELSE {FormatResult("monthly_trends", rows, MonthlyMetadata(rows), t) :
            rows \in Sorted(MonthlyTrendsQuery(os), MonthPrecedes)}

\* SELECT c.region, COUNT(DISTINCT c.customer_id), COUNT(o.order_id),
\* SUM(o.total_amount), AVG(o.total_amount) FROM customers c LEFT JOIN
\* orders o ... GROUP BY c.region: a region none of whose customers has an
\* order keeps one joined row per customer with NULL order columns, so its
\* COUNT is 0 and its SUM and AVG are NULL.
\* The pairs (customer, order) the join on mobile_number makes for region r.
RegionPairs(cs, os, r) ==
    {<<c, o>> \in cs \X os :
        c.region = r /\ o.mobile_number = c.mobile_number}

RECURSIVE SumPairs(_)
SumPairs(P) ==
    IF P = {} THEN 0
    ELSE LET p == CHOOSE x \in P : TRUE
         IN p[2].total_amount + SumPairs(P \ {p})

RegionalRevenueQuery(cs, os) ==
    {LET P == RegionPairs(cs, os, r)
     IN [region |-> r,
         customer_count |-> Cardinality({c \in cs : c.region = r}),
         total_orders |-> Cardinality(P),
         total_revenue |-> IF P = {} THEN Null ELSE Val(SumPairs(P)),
         avg_order_value |->
            IF P = {} THEN Null ELSE Val(Frac(SumPairs(P), Cardinality(P)))] :
        r \in {c.region : c \in cs}}

\* ORDER BY total_revenue DESC: MySQL lists NULL last in a descending sort.
RevenuePrecedes(a, b) ==
    /\ ~IsNull(a.total_revenue)
    /\ IsNull(b.total_revenue) \/ a.total_revenue.v > b.total_revenue.v

\* A total taken from the wrong column.
RegionalTotal_WrongColumn(rows) == SumColumn(rows, "total_orders")

\* df['total_revenue'].sum() over the query's rows.
RegionalTotal(rows) == SumCells(rows, "total_revenue")

RegionalMetadata(rows) ==
    [total_regions |-> Len(rows),
     total_revenue |-> RegionalTotal(rows),
     highest_revenue_region |->
        IF rows = <<>> THEN Null ELSE Val(rows[1].region)]

RegionalRevenueKPI(cs, os, fails, t) ==
    IF fails THEN {FormatError("regional_revenue", "store error", t)}
    ELSE {FormatResult("regional_revenue", rows, RegionalMetadata(rows), t) :
            rows \in Sorted(RegionalRevenueQuery(cs, os), RevenuePrecedes)}

\* ... INNER JOIN orders o ... WHERE o.order_date_time >= DATE_SUB(NOW(),
\* INTERVAL days DAY) GROUP BY c.customer_id, c.customer_name, c.region.
RecentMatching(c, os, cutoff) ==
    {o \in Matching(c, os) : o.order_date_time >= cutoff}

\* The same aggregate without the WHERE clause: every order counts.
TopCustomersQuery_AllTime(cs, os, cutoff) ==
    {LET g == Matching(c, os)
     IN [customer_id |-> c.customer_id, customer_name |-> c.customer_name,
         region |-> c.region, order_count |-> Cardinality(g),
         total_spend |-> SumAmount(g),
         avg_order_value |-> Frac(SumAmount(g), Cardinality(g)),
         last_order_date |-> MaxOf({o.order_date_time : o \in g})] :
        c \in {x \in cs : Matching(x, os) # {}}}

TopCustomersQuery(cs, os, cutoff) ==
    {LET g == RecentMatching(c, os, cutoff)
     IN [customer_id |-> c.customer_id, customer_name |-> c.customer_name,
         region |-> c.region, order_count |-> Cardinality(g),
         total_spend |-> SumAmount(g),
         avg_order_value |-> Frac(SumAmount(g), Cardinality(g)),
         last_order_date |-> MaxOf({o.order_date_time : o \in g})] :
        c \in {x \in cs : RecentMatching(x, os, cutoff) # {}}}

\* ORDER BY total_spend DESC.
SpendPrecedes(a, b) == a.total_spend > b.total_spend

\* LIMIT n.
Limit(rows, n) == SubSeq(rows, 1, IF Len(rows) < n THEN Len(rows) ELSE n)

TopMetadata(rows, days) ==
    [time_period_days |-> days,
     top_customer_count |-> Len(rows),
     total_revenue_top_customers |-> SumColumn(rows, "total_spend"),
     avg_spend_top_customers |->
        IF rows = <<>> THEN Frac(0, 1)
        ELSE Frac(SumColumn(rows, "total_spend"), Len(rows))]

TopCustomersLast30DaysKPI(cs, os, days, limit, fails, t) ==
    IF fails THEN {FormatError("top_customers", "store error", t)}
    ELSE {FormatResult("top_customers", Limit(rows, limit),
                       TopMetadata(Limit(rows, limit), days), t) :
            rows \in Sorted(TopCustomersQuery(cs, os, t - days), SpendPrecedes)}

\* One KPI object's calculate(**kwargs): every calculate takes **kwargs, so
\* a keyword it does not know is ignored.
KpiCalculate(k, cs, os, params, fails, t) ==
    CASE k = "repeat_customers" -> RepeatCustomersKPI(cs, os, fails, t)
      [] k = "monthly_trends" -> MonthlyOrderTrendsKPI(os, fails, t)
      [] k = "regional_revenue" -> RegionalRevenueKPI(cs, os, fails, t)
      [] k = "top_customers" ->
            TopCustomersLast30DaysKPI(cs, os, params.days, params.limit, fails, t)

\* What a call returns: a value, or an exception that reaches the caller.
Returned(v) == [raised |-> FALSE, value |-> v]
Raised(e) == [raised |-> TRUE, value |-> e]

\* TableBasedKPIEngine.calculate_kpi.
TableCalculateKpi(name, cs, os, params, fails, t) ==
    IF name \notin KpiNames
    THEN {Returned([success |-> FALSE, error |-> "Unknown KPI"])}
    ELSE {Returned(e) : e \in KpiCalculate(name, cs, os, params, fails, t)}

\* calculate_all_kpis with KPIs that let their exception out: the first
\* failure ends the loop.
TableCalculateAllKpis_Abort(cs, os, params, failing, t) ==
    IF failing # {} THEN {Raised("store error")}
    ELSE {Returned([k \in KpiNames |->
                      CHOOSE e \in KpiCalculate(k, cs, os, params, FALSE, t) : TRUE])}

\* TableBasedKPIEngine.calculate_all_kpis: failing is the set of KPIs whose
\* query raises.
TableCalculateAllKpis(cs, os, params, failing, t) ==
    {Returned([repeat_customers |-> a, monthly_trends |-> b,
               regional_revenue |-> c, top_customers |-> d]) :
        a \in KpiCalculate("repeat_customers", cs, os, params,
                           "repeat_customers" \in failing, t),
        b \in KpiCalculate("monthly_trends", cs, os, params,
                           "monthly_trends" \in failing, t),
        c \in KpiCalculate("regional_revenue", cs, os, params,
                           "regional_revenue" \in failing, t),
        d \in KpiCalculate("top_customers", cs, os, params,
                           "top_customers" \in failing, t)}

(***************************************************************************)
(* The memory engine.  A frame is None or pd.DataFrame(rows), the rows of  *)
(* one table; a frame built from no rows has no columns, so selecting or    *)
(* joining on a column of it raises KeyError.                               *)
(* The engine's state is ms = [customers_df, orders_df, last_loaded].      *)
(***************************************************************************)
NoneFrame == [none |-> TRUE, rows |-> {}]
Frame(rows) == [none |-> FALSE, rows |-> rows]
IsNone(df) == df.none
\* 'col' in df.columns, for a column of the table the frame was read from.
HasColumns(df) == ~df.none /\ df.rows # {}
\* df.empty
IsEmpty(df) == df.rows = {}

NeverLoaded == Null

LoadFaults == {"none", "customers_query", "orders_query"}

\* A load that keeps the customers it read in a local and does not assign
\* the attribute.
AssignCustomers_Deferred(ms, cs) == ms

\* self.customers_df = pd.DataFrame(customers_data)
AssignCustomers(ms, cs) == [ms EXCEPT !.customers_df = Frame(cs)]

\* self.orders_df = pd.DataFrame(orders_data), with its dates converted, and
\* self.last_loaded = datetime.now()
AssignOrders(ms, os, t) ==
    [ms EXCEPT !.orders_df = Frame(os), !.last_loaded = Val(t)]

\* MemoryBasedKPIEngine.load_data: the two SELECTs in turn, each assigned to
\* its attribute as soon as it returns; fault names the query that raises.
LoadData(ms, cs, os, fault, t) ==
    CASE fault = "customers_query" -> [ms |-> ms, ok |-> FALSE]
      [] fault = "orders_query" -> [ms |-> AssignCustomers(ms, cs), ok |-> FALSE]
      [] OTHER -> [ms |-> AssignOrders(AssignCustomers(ms, cs), os, t), ok |-> TRUE]

\* The opening guard of three of the calculations:
\* if self.customers_df is None or self.orders_df is None: self.load_data()
EnsureLoaded(ms, cs, os, fault, t) ==
    IF IsNone(ms.customers_df) \/ IsNone(ms.orders_df)
    THEN LoadData(ms, cs, os, fault, t).ms
    ELSE ms

MemoryResult(title, data, metadata, t) ==
    [kpi_name |-> title, data |-> data, metadata |-> metadata,
     calculated_at |-> t, success |-> TRUE, method |-> "memory"]

MemoryError(err) == [success |-> FALSE, error |-> err]

\* customers_df.merge(orders_df, on='mobile_number', how=...) can be formed.
CanMerge(cdf, odf) == HasColumns(cdf) /\ HasColumns(odf)

\* merged.groupby(['customer_id', 'customer_name']).agg(count, sum), then
\* the rows with order_count > 1.
RepeatCustomersFrame(cdf, odf) ==
    LET merged == {<<c, o>> \in cdf.rows \X odf.rows :
                      c.mobile_number = o.mobile_number}
        keys == {<<p[1].customer_id, p[1].customer_name>> : p \in merged}
        group(k) == {p \in merged :
                        p[1].customer_id = k[1] /\ p[1].customer_name = k[2]}
        customer_orders ==
            {[customer_id |-> k[1], customer_name |-> k[2],
              order_count |-> Cardinality(group(k)),
              total_spent |-> SumPairs(group(k))] : k \in keys}
    IN {r \in customer_orders : r.order_count > 1}

\* MemoryBasedKPIEngine.calculate_repeat_customers.
CalculateRepeatCustomers(ms, cs, os, fault, t) ==
    LET m1 == EnsureLoaded(ms, cs, os, fault, t)
    IN IF ~CanMerge(m1.customers_df, m1.orders_df)
       THEN {[ms |-> m1, ret |-> MemoryError("no column mobile_number")]}
       ELSE {[ms |-> m1,
              ret |-> MemoryResult("Repeat Customers", rows,
                                   RepeatMetadata(rows), t)] :
                rows \in Sorted(RepeatCustomersFrame(m1.customers_df, m1.orders_df),
                                RepeatPrecedes)}

\* orders_copy.groupby('month_year').agg(count, sum, mean, nunique).
MonthlyTrendsFrame(odf) ==
    {LET g == {o \in odf.rows : MonthOf(o.order_date_time) = m}
     IN [month_year |-> m, total_orders |-> Cardinality(g),
         total_revenue |-> SumAmount(g),
         avg_order_value |-> Frac(SumAmount(g), Cardinality(g)),
         unique_customers |-> Cardinality({o.mobile_number : o \in g})] :
        m \in {MonthOf(o.order_date_time) : o \in odf.rows}}

\* MemoryBasedKPIEngine.calculate_monthly_trends: it reloads when the orders
\* frame is None or empty.
CalculateMonthlyTrends(ms, cs, os, fault, t) ==
    LET m1 == IF IsNone(ms.orders_df) \/ IsEmpty(ms.orders_df)
              THEN LoadData(ms, cs, os, fault, t).ms
              ELSE ms
    IN IF ~HasColumns(m1.orders_df)
       THEN {[ms |-> m1, ret |-> MemoryError("no column order_date_time")]}
       ELSE {[ms |-> m1,
              ret |-> MemoryResult("Monthly Order Trends", rows,
                                   MonthlyMetadata(rows), t)] :
                rows \in Sorted(MonthlyTrendsFrame(m1.orders_df), MonthPrecedes)}

\* regional_stats['total_revenue'].fillna(0) (and avg_order_value likewise).
FillNa(cell, v) == IF IsNull(cell) THEN Val(v) ELSE cell

\* The left merge grouped by region, then the two fillna(0).
RegionalRevenueFrame(cdf, odf) ==
    {LET P == RegionPairs(cdf.rows, odf.rows, r)
         total == IF P = {} THEN Null ELSE Val(SumPairs(P))
         avg == IF P = {} THEN Null ELSE Val(Frac(SumPairs(P), Cardinality(P)))
     IN [region |-> r,
         customer_count |->
            Cardinality({c.customer_id : c \in {x \in cdf.rows : x.region = r}}),
         total_orders |-> Cardinality(P),
         total_revenue |-> FillNa(total, 0),
         avg_order_value |-> FillNa(avg, Frac(0, 1))] :
        r \in {c.region : c \in cdf.rows}}

\* MemoryBasedKPIEngine.calculate_regional_revenue.
CalculateRegionalRevenue(ms, cs, os, fault, t) ==
    LET m1 == EnsureLoaded(ms, cs, os, fault, t)
    IN IF ~CanMerge(m1.customers_df, m1.orders_df)
       THEN {[ms |-> m1, ret |-> MemoryError("no column mobile_number")]}
       ELSE {[ms |-> m1,
              ret |-> MemoryResult("Regional Revenue", rows,
                                   RegionalMetadata(rows), t)] :
                rows \in Sorted(RegionalRevenueFrame(m1.customers_df, m1.orders_df),
                                RevenuePrecedes)}

\* str(datetime), as astype(str) renders last_order_date.
AsStr(day) == <<"str", day>>

\* customers_df merged with the recent orders, grouped by customer.
TopCustomersFrame(cdf, recent) ==
    LET merged == {<<c, o>> \in cdf.rows \X recent :
                      c.mobile_number = o.mobile_number}
        keys == {<<p[1].customer_id, p[1].customer_name, p[1].region>> :
                    p \in merged}
        group(k) == {p \in merged : p[1].customer_id = k[1]}
    IN {[customer_id |-> k[1], customer_name |-> k[2], region |-> k[3],
         order_count |-> Cardinality(group(k)),
         total_spend |-> SumPairs(group(k)),
         avg_order_value |-> Frac(SumPairs(group(k)), Cardinality(group(k))),
         last_order_date |->
            AsStr(MaxOf({p[2].order_date_time : p \in group(k)}))] : k \in keys}

MemoryTopMetadata(rows, days) ==
    [time_period_days |-> days,
     top_customer_count |-> Len(rows),
     total_revenue_top_customers |-> SumColumn(rows, "total_spend"),
     avg_spend_top_customers |->
        IF rows = <<>> THEN Null
        ELSE Val(Frac(SumColumn(rows, "total_spend"), Len(rows)))]

\* A cutoff counted back from the time of the last load.
CutoffDate_FromLastLoaded(ms, days, t) ==
    IF IsNull(ms.last_loaded) THEN t - days ELSE ms.last_loaded.v - days

\* cutoff_date = datetime.now() - timedelta(days=days)
CutoffDate(ms, days, t) == t - days

\* MemoryBasedKPIEngine.calculate_top_customers_last_30_days(days, limit).
CalculateTopCustomers(ms, cs, os, days, limit, fault, t) ==
    LET m1 == EnsureLoaded(ms, cs, os, fault, t)
        recent == {o \in m1.orders_df.rows :
                      o.order_date_time >= CutoffDate(m1, days, t)}
    IN IF ~HasColumns(m1.orders_df)
       THEN {[ms |-> m1, ret |-> MemoryError("no column order_date_time")]}
       ELSE IF recent = {}
       THEN {[ms |-> m1,
              ret |-> MemoryResult("Top Customers (Last 30 Days)", <<>>,
                        [time_period_days |-> days, top_customer_count |-> 0], t)]}
       ELSE IF ~HasColumns(m1.customers_df)
       THEN {[ms |-> m1, ret |-> MemoryError("no column mobile_number")]}
       ELSE {[ms |-> m1,
              ret |-> MemoryResult("Top Customers (Last 30 Days)",
                        Limit(rows, limit),
                        MemoryTopMetadata(Limit(rows, limit), days), t)] :
                rows \in Sorted(TopCustomersFrame(m1.customers_df, recent),
                                SpendPrecedes)}

\* MemoryBasedKPIEngine.calculate_all_kpis(**kwargs): the guarded load, then
\* the four calculations in turn, each on the state the one before left;
\* kwargs go to calculate_top_customers_last_30_days(days, limit), which
\* takes no other keyword.  fault1 is for the guarded load and fault2 for a
\* reload by calculate_monthly_trends.
MemoryCalculateAllKpis(ms, cs, os, params, fault1, fault2, t) ==
    LET needs == IsNone(ms.customers_df) \/ IsNone(ms.orders_df)
        ld == LoadData(ms, cs, os, fault1, t)
        m0 == IF needs THEN ld.ms ELSE ms
    IN IF needs /\ ~ld.ok
       THEN {[ms |-> m0,
              out |-> Returned([success |-> FALSE, error |-> "Failed to load data"])]}
       ELSE UNION {UNION {UNION {
              IF params.extra
              THEN {[ms |-> r2.ms, out |-> Raised("TypeError")]}
              ELSE {[ms |-> r4.ms,
                     out |-> Returned([repeat_customers |-> r1.ret,
                                       monthly_trends |-> r2.ret,
                                       regional_revenue |-> r3.ret,
                                       top_customers |-> r4.ret])] :
                      r4 \in CalculateTopCustomers(r2.ms, cs, os, params.days,
                                                   params.limit, "none", t)}
              : r3 \in CalculateRegionalRevenue(r2.ms, cs, os, "none", t)}
              : r2 \in CalculateMonthlyTrends(r1.ms, cs, os, fault2, t)}
              : r1 \in CalculateRepeatCustomers(m0, cs, os, "none", t)}

(***************************************************************************)
(* The validators (DataValidator).  A missing CSV cell is pandas' NaN, a   *)
(* missing XML element is None; both are null cells, told apart by v.      *)
(***************************************************************************)
NaN == [null |-> TRUE, v |-> 1]
IsNaN(c) == c.null /\ c.v = 1

\* Python's truth value of a cell: None and '' are false, NaN (a float that
\* is not zero) and every other text are true.
Truthy(c) == IF c.null THEN c.v = 1 ELSE c.v # <<>>

\* str(value)
Str(c) ==
    IF ~c.null THEN c.v
    ELSE IF c.v = 1 THEN <<"n", "a", "n">> ELSE <<"N", "o", "n", "e">>

IsSpace(ch) == ch = " "
IsDigit(ch) == ch \in {"0", "1", "2", "3", "4", "5", "6", "7", "8", "9"}

RECURSIVE LStrip(_)
LStrip(s) == IF s # <<>> /\ IsSpace(Head(s)) THEN LStrip(Tail(s)) ELSE s

RECURSIVE RStrip(_)
RStrip(s) ==
    IF s # <<>> /\ IsSpace(s[Len(s)]) THEN RStrip(SubSeq(s, 1, Len(s) - 1)) ELSE s

\* str.strip()
Strip(s) == RStrip(LStrip(s))

IsDigitOrPlus(ch) == IsDigit(ch) \/ ch = "+"

MinMobileDigits == 8

\* DataValidator.normalize_mobile_number
NormalizeMobileNumber(mobile) ==
    IF ~Truthy(mobile) THEN Null
    ELSE LET cleaned == SelectSeq(Strip(Str(mobile)), IsDigitOrPlus)
             digit_count == Len(SelectSeq(cleaned, IsDigit))
         IN IF cleaned = <<>> THEN Null
            ELSE IF digit_count < MinMobileDigits THEN Null
            ELSE Val(cleaned)

MaxStringLength == 255

\* DataValidator.validate_string(value, min_length)
ValidateString(value, min_length) ==
    /\ Truthy(value)
    /\ min_length <= Len(Strip(Str(value)))
    /\ Len(Strip(Str(value))) <= MaxStringLength

(***************************************************************************)
(* The store's statements as the pipelines use them.  A statement runs in  *)
(* a transaction of its own (DatabaseManager.execute_query / execute_many):*)
(* it is committed when it completes and leaves no trace when it fails.    *)
(***************************************************************************)
\* DELETE FROM <table>
DeleteAll(table) == {}

\* A plain INSERT in place of the upsert, on a table that does not enforce
\* its key.
UpsertCustomer_PlainInsert(table, row) == table \cup {row}

\* INSERT INTO customers ... ON DUPLICATE KEY UPDATE customer_name, region
\* (updated_at, which the store keeps, is not modelled).
UpsertCustomer(table, row) ==
    IF \E r \in table : r.customer_id = row.customer_id
    THEN {IF r.customer_id = row.customer_id
          THEN [r EXCEPT !.customer_name = row.customer_name,
                         !.region = row.region]
          ELSE r : r \in table}
    ELSE table \cup {row}

RECURSIVE UpsertCustomers(_, _)
UpsertCustomers(table, rows) ==
    IF rows = <<>> THEN table
    ELSE UpsertCustomers(UpsertCustomer(table, Head(rows)), Tail(rows))

\* The statement a store fault makes fail, if it is executed.
StoreFaults == {"none", "delete", "upsert"}

(***************************************************************************)
(* The CSV pipeline (CSVLoader).  A file is [readable, has_columns, rows]: *)
(* whether it exists and parses, whether its header has the four required *)
(* columns, and its data rows, each cell a text or NaN.  The columns are   *)
(* read as text.                                                           *)
(***************************************************************************)
MaxIdLength == 25
MinNameLength == 2

\* CSVLoader.load_csv: the frame, or None.
LoadCsv(file) == IF file.readable THEN Val(file) ELSE Null

FileError(msg) == [label |-> 0, fields |-> <<msg>>]

\* The problems validate_dataframe finds in one row, in the order it checks.
CustomerRowErrors(row) ==
    LET customer_id == Strip(Str(row.customer_id))
    IN (IF customer_id = <<>> \/ Len(customer_id) > MaxIdLength
        THEN <<"customer_id">> ELSE <<>>)
       \o (IF ~ValidateString(row.customer_name, MinNameLength)
           THEN <<"customer_name">> ELSE <<>>)
       \o (IF IsNull(NormalizeMobileNumber(row.mobile_number))
           THEN <<"mobile_number">> ELSE <<>>)
       \o (IF ~ValidateString(row.region, MinNameLength)
           THEN <<"region">> ELSE <<>>)

\* A validation that stops at the first row with a problem.
RECURSIVE CustomerErrorsFrom_FailFast(_, _)
CustomerErrorsFrom_FailFast(rows, idx) ==
    IF idx >= Len(rows) THEN <<>>
    ELSE LET row_errors == CustomerRowErrors(rows[idx + 1])
         IN IF row_errors # <<>>
            THEN <<[label |-> idx + 2, fields |-> row_errors]>>
            ELSE CustomerErrorsFrom_FailFast(rows, idx + 1)

RECURSIVE CustomerErrorsFrom(_, _)
CustomerErrorsFrom(rows, idx) ==
    IF idx >= Len(rows) THEN <<>>
    ELSE LET row_errors == CustomerRowErrors(rows[idx + 1])
         IN (IF row_errors # <<>>
             THEN <<[label |-> idx + 2, fields |-> row_errors]>> ELSE <<>>)
            \o CustomerErrorsFrom(rows, idx + 1)

\* CSVLoader.validate_dataframe: (is_valid, errors).
ValidateDataframe(df) ==
    LET errors ==
            IF ~df.has_columns THEN <<FileError("Missing required columns")>>
            ELSE IF df.rows = <<>> THEN <<FileError("CSV file is empty")>>
            ELSE CustomerErrorsFrom(df.rows, 0)
    IN [is_valid |-> errors = <<>>, errors |-> errors]

\* Series.str.strip() on a text column: NaN stays NaN.
StripCell(c) == IF c.null THEN c ELSE Val(Strip(c.v))

\* df.drop_duplicates(subset=[key], keep='first')
DropDuplicates(rows, key) ==
    SelectSeq([i \in DOMAIN rows |-> [row |-> rows[i], idx |-> i]],
              LAMBDA x : \A j \in 1..(x.idx - 1) : rows[j][key] # x.row[key])

\* CSVLoader.clean_dataframe: strip, normalise, drop duplicates, dropna.
CleanDataframe(df) ==
    LET stripped == [i \in DOMAIN df.rows |->
            LET r == df.rows[i]
            IN [customer_id |-> Val(Strip(Str(StripCell(r.customer_id)))),
                customer_name |-> StripCell(r.customer_name),
                mobile_number |-> NormalizeMobileNumber(StripCell(r.mobile_number)),
                region |-> StripCell(r.region)]]
        unique == DropDuplicates(stripped, "customer_id")
        kept == SelectSeq(unique, LAMBDA x :
                    /\ ~IsNull(x.row.customer_id)
                    /\ ~IsNull(x.row.customer_name)
                    /\ ~IsNull(x.row.mobile_number)
                    /\ ~IsNull(x.row.region))
    IN [i \in DOMAIN kept |-> kept[i].row]

\* The parameter tuples load_to_database builds from the cleaned frame.
CustomerTuples(df_clean) ==
    [i \in DOMAIN df_clean |->
        [customer_id |-> df_clean[i].customer_id.v,
         customer_name |-> df_clean[i].customer_name.v,
         mobile_number |-> df_clean[i].mobile_number.v,
         region |-> df_clean[i].region.v]]

\* A load that issues no DELETE in replace mode and a plain INSERT, which
\* the store refuses when a key is already there.
LoadCustomers_InsertOnly(table, df_clean, mode, fault) ==
    IF \E r \in table : \E i \in DOMAIN df_clean :
            r.customer_id = df_clean[i].customer_id.v
    THEN [table |-> table, ok |-> FALSE]
    ELSE [table |-> table \cup Range(CustomerTuples(df_clean)), ok |-> TRUE]

\* A load whose DELETE and upsert share one transaction: a statement that
\* fails takes the DELETE back with it.
LoadCustomers_OneTransaction(table, df_clean, mode, fault) ==
    IF fault = "upsert" \/ (mode = "replace" /\ fault = "delete")
    THEN [table |-> table, ok |-> FALSE]
    ELSE [table |-> UpsertCustomers(IF mode = "replace" THEN DeleteAll(table)
                                    ELSE table,
                                    CustomerTuples(df_clean)),
          ok |-> TRUE]

\* CSVLoader.load_to_database: [table, ok].
LoadCustomersToDatabase(table, df_clean, mode, fault) ==
    IF mode = "replace" /\ fault = "delete" THEN [table |-> table, ok |-> FALSE]
    ELSE LET cleared == IF mode = "replace" THEN DeleteAll(table) ELSE table
         IN IF fault = "upsert" THEN [table |-> cleared, ok |-> FALSE]
            ELSE [table |-> UpsertCustomers(cleared, CustomerTuples(df_clean)),
                  ok |-> TRUE]

\* A result whose duration is set by the last statement of the try body,
\* which an early return does not reach.
PipelineResult_DurationAtEnd(success, records_loaded, errors) ==
    [success |-> success, records_loaded |-> records_loaded, errors |-> errors,
     duration |-> IF success THEN "elapsed" ELSE "0"]

\* The result dictionary as process_csv / process_xml return it: duration
\* starts as 0 and the finally clause sets it to the time elapsed.
PipelineResult(success, records_loaded, errors) ==
    [success |-> success, records_loaded |-> records_loaded, errors |-> errors,
     duration |-> "elapsed"]

\* A process_csv that clears the table in replace mode before it loads and
\* validates the file.
ProcessCsv_DeleteFirst(table, file, mode, fault) ==
    LET cleared == IF mode = "replace" THEN DeleteAll(table) ELSE table
        df == LoadCsv(file)
        v == ValidateDataframe(df.v)
        df_clean == CleanDataframe(df.v)
        ld == LoadCustomersToDatabase(cleared, df_clean, "append", fault)
    IN IF IsNull(df)
       THEN [table |-> cleared, stage |-> "load",
             out |-> Returned(PipelineResult(FALSE, 0, <<FileError("Failed to load CSV file")>>))]
       ELSE IF ~v.is_valid
       THEN [table |-> cleared, stage |-> "validate",
             out |-> Returned(PipelineResult(FALSE, 0, v.errors))]
       ELSE [table |-> ld.table, stage |-> "store",
             out |-> Returned(PipelineResult(ld.ok, IF ld.ok THEN Len(df_clean) ELSE 0, <<>>))]

\* CSVLoader.process_csv: [table, out, stage], stage being the last stage
\* the run entered.
ProcessCsv(table, file, mode, fault) ==
    LET df == LoadCsv(file)
        v == ValidateDataframe(df.v)
        df_clean == CleanDataframe(df.v)
        ld == LoadCustomersToDatabase(table, df_clean, mode, fault)
    IN IF IsNull(df)
       THEN [table |-> table, stage |-> "load",
             out |-> Returned(PipelineResult(FALSE, 0, <<FileError("Failed to load CSV file")>>))]
       ELSE IF ~v.is_valid
       THEN [table |-> table, stage |-> "validate",
             out |-> Returned(PipelineResult(FALSE, 0, v.errors))]
       ELSE IF ld.ok
       THEN [table |-> ld.table, stage |-> "store",
             out |-> Returned(PipelineResult(TRUE, Len(df_clean), <<>>))]
       ELSE [table |-> ld.table, stage |-> "store",
             out |-> Returned(PipelineResult(FALSE, 0,
                        <<FileError("Failed to load data to database")>>))]

(***************************************************************************)
(* Numbers and dates as the XML pipeline reads them.  A number is read     *)
(* from its text: an optional sign, digits, and an optional point followed *)
(* by digits.  Its value is kept in hundredths, the smallest currency unit *)
(* of an amount.  The text of a date is [format, day]: the layout it is    *)
(* written in and the day it denotes.                                      *)
(***************************************************************************)
DigitValue(ch) ==
    CASE ch = "0" -> 0 [] ch = "1" -> 1 [] ch = "2" -> 2 [] ch = "3" -> 3
      [] ch = "4" -> 4 [] ch = "5" -> 5 [] ch = "6" -> 6 [] ch = "7" -> 7
      [] ch = "8" -> 8 [] ch = "9" -> 9

AllDigits(s) == \A i \in DOMAIN s : IsDigit(s[i])

RECURSIVE DigitsValue(_)
DigitsValue(s) ==
    IF s = <<>> THEN 0
    ELSE 10 * DigitsValue(SubSeq(s, 1, Len(s) - 1)) + DigitValue(s[Len(s)])

\* The text without its sign, and whether the sign is a minus.
Unsigned(t) == IF t # <<>> /\ Head(t) \in {"-", "+"} THEN Tail(t) ELSE t
IsNegative(t) == t # <<>> /\ Head(t) = "-"

\* Where the decimal point of t is (0 if it has none).
PointAt(t) ==
    IF \E i \in DOMAIN t : t[i] = "."
    THEN CHOOSE i \in DOMAIN t : t[i] = "." /\ \A j \in 1..(i - 1) : t[j] # "."
    ELSE 0

HundredthsPerUnit == 100

\* The first two decimals of a fraction, as hundredths.
FractionValue(f) ==
    (IF Len(f) >= 1 THEN 10 * DigitValue(f[1]) ELSE 0)
    + (IF Len(f) >= 2 THEN DigitValue(f[2]) ELSE 0)

\* float(text): the value in hundredths, or Null where float raises
\* ValueError (TypeError for None).
ParseFloat(c) ==
    IF c.null THEN Null
    ELSE LET t == Strip(c.v)
             u == Unsigned(t)
             p == PointAt(u)
             whole == IF p = 0 THEN u ELSE SubSeq(u, 1, p - 1)
             frac == IF p = 0 THEN <<>> ELSE SubSeq(u, p + 1, Len(u))
             magnitude == HundredthsPerUnit * DigitsValue(whole) + FractionValue(frac)
         IN IF /\ AllDigits(whole)
               /\ AllDigits(frac)
               /\ whole \o frac # <<>>
            THEN Val(IF IsNegative(t) THEN 0 - magnitude ELSE magnitude)
            ELSE Null

\* int(text): the whole number, or Null where int raises ValueError.
ParseInt(c) ==
    IF c.null THEN Null
    ELSE LET t == Strip(c.v)
             u == Unsigned(t)
         IN IF u # <<>> /\ AllDigits(u)
            THEN Val(IF IsNegative(t) THEN 0 - DigitsValue(u) ELSE DigitsValue(u))
            ELSE Null

\* DataValidator.validate_positive_number
ValidatePositiveNumber(value) ==
    ~IsNull(ParseFloat(value)) /\ ParseFloat(value).v > 0

\* DataValidator.validate_non_negative_number
ValidateNonNegativeNumber(value) ==
    ~IsNull(ParseFloat(value)) /\ ParseFloat(value).v >= 0

\* The layouts validate_datetime tries.
DatetimeFormats ==
    {"%Y-%m-%dT%H:%M:%S", "%Y-%m-%d %H:%M:%S", "%Y-%m-%d", "%d-%m-%Y", "%d/%m/%Y"}

\* DataValidator.validate_datetime: the parsed date, or None.
ValidateDatetime(dt_string) ==
    IF dt_string.null THEN Null
    ELSE IF dt_string.v.format \in DatetimeFormats THEN Val(dt_string.v.day)
    ELSE Null

(***************************************************************************)
(* The XML pipeline (XMLLoader).  A file is [readable, orders]: whether it *)
(* exists and parses, and its <order> elements, each a record of the six   *)
(* fields, a field being its element's text or None (no such element, or   *)
(* an element with no text).                                               *)
(***************************************************************************)
OrderFields ==
    <<"order_id", "mobile_number", "order_date_time", "sku_id", "sku_count",
      "total_amount">>

\* XMLLoader.load_xml: the list of orders, or None.
LoadXml(file) == IF file.readable THEN Val(file.orders) ELSE Null

\* not order[f]
FieldMissing(order, f) ==
    IF f = "order_date_time" THEN order[f].null ELSE ~Truthy(order[f])

\* The problems validate_orders finds in one order, in the order it checks.
OrderErrors(order) ==
    LET missing_fields == SelectSeq(OrderFields, LAMBDA f : FieldMissing(order, f))
        order_id == Strip(Str(order.order_id))
    IN IF missing_fields # <<>> THEN <<"Missing fields">> \o missing_fields
       ELSE (IF order_id = <<>> \/ Len(order_id) > MaxIdLength
             THEN <<"order_id">> ELSE <<>>)
            \o (IF IsNull(NormalizeMobileNumber(order.mobile_number))
                THEN <<"mobile_number">> ELSE <<>>)
            \o (IF IsNull(ValidateDatetime(order.order_date_time))
                THEN <<"order_date_time">> ELSE <<>>)
            \o (IF ~ValidateString(order.sku_id, 1) THEN <<"sku_id">> ELSE <<>>)
            \o (IF ~ValidatePositiveNumber(order.sku_count)
                THEN <<"sku_count">> ELSE <<>>)
            \o (IF ~ValidateNonNegativeNumber(order.total_amount)
                THEN <<"total_amount">> ELSE <<>>)

RECURSIVE OrderErrorsFrom(_, _)
OrderErrorsFrom(os, idx) ==
    IF idx >= Len(os) THEN <<>>
    ELSE LET row_errors == OrderErrors(os[idx + 1])
         IN (IF row_errors # <<>>
             THEN <<[label |-> idx + 1, fields |-> row_errors]>> ELSE <<>>)
            \o OrderErrorsFrom(os, idx + 1)

\* XMLLoader.validate_orders: (is_valid, errors).
ValidateOrders(os) ==
    LET errors == IF os = <<>> THEN <<FileError("No orders found in XML file")>>
                  ELSE OrderErrorsFrom(os, 0)
    IN [is_valid |-> errors = <<>>, errors |-> errors]

\* The cleaned form of one order; a None among its values, or a conversion
\* that raises, makes clean_orders skip the order.
CleanedOrder(order) ==
    [order_id |-> Val(Strip(Str(order.order_id))),
     mobile_number |-> NormalizeMobileNumber(order.mobile_number),
     order_date_time |-> ValidateDatetime(order.order_date_time),
     sku_id |-> IF order.sku_id.null THEN Null ELSE Val(Strip(order.sku_id.v)),
     sku_count |-> ParseInt(order.sku_count),
     total_amount |-> ParseFloat(order.total_amount)]

\* XMLLoader.clean_orders: convert, skip what does not convert, then keep
\* the first order of each order_id.
CleanOrders(os) ==
    LET cleaned == [i \in DOMAIN os |-> CleanedOrder(os[i])]
        cleaned_orders ==
            SelectSeq(cleaned, LAMBDA o : \A f \in Range(OrderFields) : ~IsNull(o[f]))
        unique == DropDuplicates(cleaned_orders, "order_id")
    IN [i \in DOMAIN unique |->
            [f \in Range(OrderFields) |-> unique[i].row[f].v]]

\* An upsert that replaces the whole stored row by the row of the file, as
\* REPLACE INTO does.
UpsertOrder_ReplaceRow(table, row) ==
    {r \in table : r.order_id # row.order_id} \cup {row}

\* INSERT INTO orders ... ON DUPLICATE KEY UPDATE sku_count, total_amount
UpsertOrder(table, row) ==
    IF \E r \in table : r.order_id = row.order_id
    THEN {IF r.order_id = row.order_id
          THEN [r EXCEPT !.sku_count = row.sku_count,
                         !.total_amount = row.total_amount]
          ELSE r : r \in table}
    ELSE table \cup {row}

RECURSIVE UpsertOrders(_, _)
UpsertOrders(table, rows) ==
    IF rows = <<>> THEN table
    ELSE UpsertOrders(UpsertOrder(table, Head(rows)), Tail(rows))

\* A load that clears the table in append mode too.
LoadOrders_AlwaysClear(table, cleaned_orders, mode, fault) ==
    IF fault = "delete" THEN [table |-> table, ok |-> FALSE]
    ELSE IF fault = "upsert" THEN [table |-> DeleteAll(table), ok |-> FALSE]
    ELSE [table |-> UpsertOrders(DeleteAll(table), cleaned_orders), ok |-> TRUE]

\* XMLLoader.load_to_database: [table, ok].
LoadOrdersToDatabase(table, cleaned_orders, mode, fault) ==
    IF mode = "replace" /\ fault = "delete" THEN [table |-> table, ok |-> FALSE]
    ELSE LET cleared == IF mode = "replace" THEN DeleteAll(table) ELSE table
         IN IF fault = "upsert" THEN [table |-> cleared, ok |-> FALSE]
            ELSE [table |-> UpsertOrders(cleared, cleaned_orders), ok |-> TRUE]

\* XMLLoader.process_xml: [table, out, stage].
ProcessXml(table, file, mode, fault) ==
    LET os == LoadXml(file)
        v == ValidateOrders(os.v)
        cleaned_orders == CleanOrders(os.v)
        ld == LoadOrdersToDatabase(table, cleaned_orders, mode, fault)
    IN IF IsNull(os)
       THEN [table |-> table, stage |-> "load",
             out |-> Returned(PipelineResult(FALSE, 0, <<FileError("Failed to load XML file")>>))]
       ELSE IF ~v.is_valid
       THEN [table |-> table, stage |-> "validate",
             out |-> Returned(PipelineResult(FALSE, 0, v.errors))]
       ELSE IF ld.ok
       THEN [table |-> ld.table, stage |-> "store",
             out |-> Returned(PipelineResult(TRUE, Len(cleaned_orders), <<>>))]
       ELSE [table |-> ld.table, stage |-> "store",
             out |-> Returned(PipelineResult(FALSE, 0,
                        <<FileError("Failed to load data to database")>>))]

(***************************************************************************)
(* The files the pipelines are run on: every sequence of at most           *)
(* MaxFileRows of the rows below, and a file that cannot be read.          *)
(***************************************************************************)
MaxFileRows == 2

Padded(text) == <<" ">> \o text \o <<" ">>

\* A well-formed row.
CsvRowA ==
    [customer_id |-> Val(CustomerKeys[1]), customer_name |-> Val(CustomerNames[1]),
     mobile_number |-> Val(MobileA), region |-> Val(RegionN)]

\* A well-formed row whose cells are padded and whose mobile number is
\* written with a space.
CsvRowB ==
    [customer_id |-> Val(CustomerKeys[2]),
     customer_name |-> Val(Padded(CustomerNames[2])),
     mobile_number |-> Val(<<"+", "9", "1", " ", "9", "8", "7", "6", "5", "4">>),
     region |-> Val(RegionS)]

\* The customer_id of CsvRowA again, padded, with other values.
CsvRowA2 ==
    [customer_id |-> Val(Padded(CustomerKeys[1])),
     customer_name |-> Val(CustomerNames[3]),
     mobile_number |-> Val(MobileB), region |-> Val(RegionS)]

\* A mobile number with too few digits.
CsvRowShortMobile ==
    [customer_id |-> Val(CustomerKeys[3]), customer_name |-> Val(CustomerNames[3]),
     mobile_number |-> Val(<<"1", "2", "3", "4", "5">>), region |-> Val(RegionN)]

\* An empty customer_name cell.
CsvRowNoName ==
    [customer_id |-> Val(CustomerKeys[2]), customer_name |-> NaN,
     mobile_number |-> Val(MobileA), region |-> Val(RegionS)]

CsvRows == {CsvRowA, CsvRowB, CsvRowA2, CsvRowShortMobile, CsvRowNoName}

\* The sequences over S of length at most n.
SeqsUpTo(S, n) == UNION {[1..k -> S] : k \in 0..n}

CsvFiles ==
    {[readable |-> TRUE, has_columns |-> TRUE, rows |-> rows] :
        rows \in SeqsUpTo(CsvRows, MaxFileRows)}
    \cup {[readable |-> TRUE, has_columns |-> FALSE, rows |-> <<CsvRowA>>],
          [readable |-> FALSE, has_columns |-> FALSE, rows |-> <<>>]}

FileDay == 59

IsoDate(day) == Val([format |-> "%Y-%m-%dT%H:%M:%S", day |-> day])

\* A well-formed order.
XmlOrderA ==
    [order_id |-> Val(OrderKeys[1]), mobile_number |-> Val(MobileA),
     order_date_time |-> IsoDate(FileDay), sku_id |-> Val(SkuX),
     sku_count |-> Val(<<"1">>), total_amount |-> Val(<<"1">>)]

\* The order_id of XmlOrderA again, padded, with other values.
XmlOrderA2 ==
    [order_id |-> Val(Padded(OrderKeys[1])), mobile_number |-> Val(MobileB),
     order_date_time |-> Val([format |-> "%d/%m/%Y", day |-> FileDay]),
     sku_id |-> Val(Padded(SkuX)),
     sku_count |-> Val(<<"2">>), total_amount |-> Val(<<"2", ".", "5">>)]

\* A sku_count that is a number but not a whole one.
XmlOrderFraction ==
    [order_id |-> Val(OrderKeys[2]), mobile_number |-> Val(MobileA),
     order_date_time |-> IsoDate(FileDay), sku_id |-> Val(SkuX),
     sku_count |-> Val(<<"2", ".", "5">>), total_amount |-> Val(<<"2">>)]

\* A negative amount and a date in a layout that is not accepted.
XmlOrderBad ==
    [order_id |-> Val(OrderKeys[2]), mobile_number |-> Val(MobileA),
     order_date_time |-> Val([format |-> "%m/%d/%Y", day |-> FileDay]),
     sku_id |-> Val(SkuX),
     sku_count |-> Val(<<"1">>), total_amount |-> Val(<<"-", "1">>)]

\* An order with no <sku_id> element.
XmlOrderNoSku ==
    [order_id |-> Val(OrderKeys[2]), mobile_number |-> Val(MobileA),
     order_date_time |-> IsoDate(FileDay), sku_id |-> Null,
     sku_count |-> Val(<<"1">>), total_amount |-> Val(<<"1">>)]

XmlOrders == {XmlOrderA, XmlOrderA2, XmlOrderFraction, XmlOrderBad, XmlOrderNoSku}

XmlFiles ==
    {[readable |-> TRUE, orders |-> os] : os \in SeqsUpTo(XmlOrders, MaxFileRows)}
    \cup {[readable |-> FALSE, orders |-> <<>>]}

Modes == {"replace", "append"}

\* The ways one run can go: its mode and the statement that fails (append
\* mode issues no DELETE, so there is none to fail).
RunChoices ==
    {<<mode, fault>> \in Modes \X StoreFaults :
        mode = "append" => fault # "delete"}

(***************************************************************************)
(* The connection pool (MySQLConnectionPool, created by                    *)
(* DatabaseManager._initialize_connection_pool) and the callers of         *)
(* get_cursor.  A connection is either in the pool's queue (free) or       *)
(* checked out; pending[c] says that the session of connection c has work  *)
(* that is neither committed nor rolled back.                              *)
(***************************************************************************)
PoolSize == 1
NumCallers == 2

Connections == 1..PoolSize
Callers == 1..NumCallers
NoConnection == 0

\* The pool as _initialize_connection_pool leaves it: pool_size connections,
\* all of them in the queue.
PoolInit == [free |-> Connections, pending |-> [c \in Connections |-> FALSE]]

\* A caller that is not inside get_cursor.  connection is the connection it
\* holds, used the one it was given, cursor the state of its cursor, raised
\* the exception on its way to the caller ("Error" is mysql.connector's
\* Error, "other" any other exception), ended what get_cursor has done to
\* the transaction.
CallerIdle ==
    [pc |-> "idle", connection |-> NoConnection, used |-> NoConnection,
     cursor |-> "none", raised |-> "none", ended |-> "none"]

\* A connection that is closed without being put back in the queue.
ReturnToPool_Dropped(free, c) == free

\* PooledMySQLConnection.close(): the connection goes back to the queue.
ReturnToPool(free, c) == free \cup {c}

CallersInit == [t \in Callers |-> CallerIdle]

\* No first run has been made.
NoRun == [made |-> FALSE]

\* No load_data() is under way.
NoLoad == [pc |-> "idle", loads |-> 0, customers_from |-> 0, orders_from |-> 0,
           returned |-> Null]

(***************************************************************************)
(* The KPI engines over a store of any bounded content.                    *)
(***************************************************************************)
DefaultDays == 30
DefaultLimit == 10

\* The keyword arguments of a call: days and limit, and whether a keyword
\* that no KPI knows comes with them.
ParamChoices ==
    {[days |-> DefaultDays, limit |-> DefaultLimit, extra |-> FALSE],
     [days |-> 0, limit |-> 1, extra |-> FALSE],
     [days |-> DefaultDays, limit |-> DefaultLimit, extra |-> TRUE]}

\* No call is in progress: the last result has been taken by its caller.
NoResult == [op |-> "none"]
Idle == result = NoResult

\* The caller takes the result of the call it made; calls are synchronous,
\* so the next one starts after that.
Return ==
    /\ ~Idle
    /\ result' = NoResult
    /\ UNCHANGED <<customers, orders, engine_vars, now, first_run, loading, pool_vars>>

DefaultParams == [days |-> DefaultDays, limit |-> DefaultLimit, extra |-> FALSE]

\* The keyword arguments tried with KPI name: only top_customers reads any.
ParamsFor(name) == IF name = "top_customers" THEN ParamChoices ELSE {DefaultParams}

\* The sets of KPIs whose query is made to fail in one calculate_all_kpis.
FailingChoices == {F \in SUBSET KpiNames : Cardinality(F) <= 1 \/ F = KpiNames}

MemoryState == [customers_df |-> customers_df, orders_df |-> orders_df,
                last_loaded |-> last_loaded]

SetMemoryState(ms) ==
    /\ customers_df' = ms.customers_df
    /\ orders_df' = ms.orders_df
    /\ last_loaded' = ms.last_loaded

InitKpi ==
    /\ customers \in CustomerTables
    /\ orders \in OrderTables
    /\ customers_df = NoneFrame
    /\ orders_df = NoneFrame
    /\ last_loaded = NeverLoaded
    /\ now = StartDay
    /\ result = NoResult
    /\ first_run = NoRun
    /\ loading = NoLoad
    /\ pool = PoolInit
    /\ callers = CallersInit

\* table_kpi_engine.calculate_kpi(name, **params)
TableKpi ==
    /\ Idle
    /\ \E name \in KpiNames \cup {"unknown"}, fails \in BOOLEAN :
        \E params \in ParamsFor(name) :
        \E out \in TableCalculateKpi(name, customers, orders, params, fails, now) :
            /\ result' = [op |-> "table.calculate_kpi", name |-> name,
                          params |-> params, failing |-> fails, out |-> out]
            /\ UNCHANGED <<customers, orders, engine_vars, now, first_run, loading,
                           pool_vars>>

\* table_kpi_engine.calculate_all_kpis(**params)
TableAll ==
    /\ Idle
    /\ \E params \in ParamChoices, failing \in FailingChoices :
        \E out \in TableCalculateAllKpis(customers, orders, params, failing, now) :
            /\ result' = [op |-> "table.calculate_all_kpis", params |-> params,
                          failing |-> failing, out |-> out]
            /\ UNCHANGED <<customers, orders, engine_vars, now, first_run, loading,
                           pool_vars>>

\* memory_kpi_engine.load_data()
MemoryLoad ==
    /\ Idle
    /\ \E fault \in LoadFaults :
        LET r == LoadData(MemoryState, customers, orders, fault, now)
        IN /\ SetMemoryState(r.ms)
           /\ result' = [op |-> "memory.load_data", fault |-> fault,
                         out |-> Returned(r.ok)]
           /\ UNCHANGED <<customers, orders, now, first_run, loading, pool_vars>>

\* What one of the memory engine's four calculations may do, called on its
\* own with the keyword arguments params.
MemoryCalculate(name, ms, cs, os, params, fault, t) ==
    CASE name = "repeat_customers" -> CalculateRepeatCustomers(ms, cs, os, fault, t)
      [] name = "monthly_trends" -> CalculateMonthlyTrends(ms, cs, os, fault, t)
      [] name = "regional_revenue" -> CalculateRegionalRevenue(ms, cs, os, fault, t)
      [] name = "top_customers" ->
            CalculateTopCustomers(ms, cs, os, params.days, params.limit, fault, t)

MemoryKpi ==
    /\ Idle
    /\ \E name \in KpiNames, fault \in LoadFaults :
        \E params \in {p \in ParamsFor(name) : ~p.extra} :
        \E r \in MemoryCalculate(name, MemoryState, customers, orders, params,
                                 fault, now) :
            /\ SetMemoryState(r.ms)
            /\ result' = [op |-> "memory.calculate", name |-> name,
                          params |-> params, out |-> Returned(r.ret)]
            /\ UNCHANGED <<customers, orders, now, first_run, loading, pool_vars>>

\* memory_kpi_engine.calculate_all_kpis(**params)
MemoryAll ==
    /\ Idle
    /\ \E params \in ParamChoices, fault1 \in LoadFaults, fault2 \in LoadFaults :
        \E r \in MemoryCalculateAllKpis(MemoryState, customers, orders, params,
                                        fault1, fault2, now) :
            /\ SetMemoryState(r.ms)
            /\ result' = [op |-> "memory.calculate_all_kpis", params |-> params,
                          out |-> r.out]
            /\ UNCHANGED <<customers, orders, now, first_run, loading, pool_vars>>

NextKpi == TableKpi \/ TableAll \/ MemoryLoad \/ MemoryKpi \/ MemoryAll \/ Return

SpecKpi == InitKpi /\ [][NextKpi]_vars

(***************************************************************************)
(* Properties of the KPI engines (checked under SpecKpi).                  *)
(***************************************************************************)
\* The memory engine's frames are those of a successful load_data() of the
\* store as it is now.
LoadedFromStore ==
    /\ customers_df = Frame(customers)
    /\ orders_df = Frame(orders)
    /\ ~IsNull(last_loaded)

\* The memory engine's calculation of KPI name has just returned.
MemoryReturned(name) ==
    result.op = "memory.calculate" /\ result.name = name

\* The (customer_id, order_count, total_spent) triples of a list of rows.
RepeatRowKeys(rows) ==
    {<<rows[i].customer_id, rows[i].order_count, rows[i].total_spent>> :
        i \in DOMAIN rows}

\* C1: after load_data() on any store content, the table engine's and the
\* memory engine's repeat_customers return the same set of (customer_id,
\* order_count, total_spent) rows, listed in the same order except among rows
\* that tie on order_count and total_spent.
C1_RepeatCustomersEnginesAgree ==
    (MemoryReturned("repeat_customers") /\ LoadedFromStore) =>
        \A e \in RepeatCustomersKPI(customers, orders, FALSE, now) :
            LET m == result.out.value
            IN /\ e.success
               /\ m.success
               /\ RepeatRowKeys(m.data) = RepeatRowKeys(e.data)
               /\ \A i, j \in DOMAIN m.data :
                    i < j => ~RepeatPrecedes(m.data[j], m.data[i])

\* The same on a store with at least one customer and one order.
C1_AgreeOnNonEmptyTables ==
    (customers # {} /\ orders # {}) => C1_RepeatCustomersEnginesAgree

\* The regional_revenue envelopes in the result of the last call, each with
\* the engine that made it.
RegionalEnvelopes ==
    CASE result.op = "table.calculate_kpi" /\ result.name = "regional_revenue" ->
            {[method |-> "sql", env |-> result.out.value]}
      [] result.op = "table.calculate_all_kpis" /\ ~result.out.raised ->
            {[method |-> "sql", env |-> result.out.value.regional_revenue]}
      [] MemoryReturned("regional_revenue") ->
            {[method |-> "memory", env |-> result.out.value]}
      [] /\ result.op = "memory.calculate_all_kpis"
         /\ ~result.out.raised
         /\ "regional_revenue" \in DOMAIN result.out.value ->
            {[method |-> "memory", env |-> result.out.value.regional_revenue]}
      [] OTHER -> {}

\* The total_revenue scalar an envelope reports: the table engine merges the
\* metadata into the envelope, the memory engine nests it under metadata.
ReportedTotalRevenue(x) ==
    IF x.method = "sql" THEN x.env.total_revenue
    ELSE x.env.metadata.total_revenue

RECURSIVE RevenueOfRows(_, _)
RevenueOfRows(rows, n) ==
    IF n = 0 THEN 0
    ELSE RevenueOfRows(rows, n - 1) +
         (IF rows[n].total_revenue.null THEN 0 ELSE rows[n].total_revenue.v)

\* C2: the total_revenue scalar of a regional_revenue envelope of either
\* engine equals the sum of total_revenue over all rows of its data (a NULL
\* revenue, of a region with no matching orders, adding nothing).
C2_RegionalTotalIsSumOfRows ==
    \A x \in RegionalEnvelopes :
        x.env.success =>
            ReportedTotalRevenue(x) = RevenueOfRows(x.env.data, Len(x.env.data))

C2_Witness ==
    \E x \in RegionalEnvelopes :
        /\ x.env.success
        /\ Len(x.env.data) >= 2
        /\ \E i \in DOMAIN x.env.data : x.env.data[i].total_orders = 0
        /\ \E i \in DOMAIN x.env.data : x.env.data[i].total_orders >= 2
        /\ ReportedTotalRevenue(x) >= 2

\* Whether the memory engine's calculation of KPI k can work on the frames:
\* the frames it selects from or joins have their columns.
MemoryInputsUsable(k, days) ==
    CASE k = "monthly_trends" -> HasColumns(orders_df)
      [] k = "top_customers" ->
            /\ HasColumns(orders_df)
            /\ \/ HasColumns(customers_df)
               \/ \A o \in orders_df.rows : o.order_date_time < now - days
      [] OTHER -> CanMerge(customers_df, orders_df)

IsKpiMapping(v) == DOMAIN v = KpiNames

\* C6: in calculate_all_kpis of either engine a KPI whose computation fails
\* maps to an envelope with success = false and an error, alone: every other
\* KPI is still computed and maps to its own envelope (a successful one
\* exactly when its own computation does not fail).
C6_FailureIsPerKpi ==
    /\ result.op = "table.calculate_all_kpis" =>
        /\ ~result.out.raised
        /\ IsKpiMapping(result.out.value)
        /\ \A k \in KpiNames :
            LET e == result.out.value[k]
            IN /\ e.success = (k \notin result.failing)
               /\ ~e.success => "error" \in DOMAIN e
               /\ e.success => "data" \in DOMAIN e
    /\ (/\ result.op = "memory.calculate_all_kpis"
        /\ ~result.out.raised
        /\ IsKpiMapping(result.out.value)) =>
        \A k \in KpiNames :
            LET e == result.out.value[k]
            IN /\ e.success = MemoryInputsUsable(k, result.params.days)
               /\ ~e.success => "error" \in DOMAIN e
               /\ e.success => "data" \in DOMAIN e

\* The table engine's calculate_all_kpis has returned with the query of one
\* KPI failed and the other KPIs computed.
C6_Witness ==
    /\ result.op = "table.calculate_all_kpis"
    /\ result.failing = {"monthly_trends"}
    /\ ~result.out.value.monthly_trends.success
    /\ result.out.value.top_customers.success
    /\ result.out.value.repeat_customers.success
    /\ Len(result.out.value.regional_revenue.data) >= 2

\* The same in the memory engine: monthly_trends succeeds on its own while
\* the three KPIs that join the (empty) customers frame fail.
C6_MemoryCase ==
    /\ result.op = "memory.calculate_all_kpis"
    /\ ~result.out.raised
    /\ IsKpiMapping(result.out.value)
    /\ result.out.value.monthly_trends.success
    /\ ~result.out.value.repeat_customers.success

\* C7: no public operation raises to its caller; each returns a structured
\* result with a success flag.
C7_NoOperationRaises == ~Idle => ~result.out.raised

\* C10: for each KPI the envelope of the table engine and the envelope of
\* the memory engine have the same set of field names, on success and on
\* failure.
C10_EnvelopeFieldsAgree ==
    \A k \in KpiNames :
        MemoryReturned(k) =>
            \A e \in KpiCalculate(k, customers, orders, result.params,
                                  ~result.out.value.success, now) :
                DOMAIN e = DOMAIN result.out.value

(***************************************************************************)
(* The two ingestion pipelines, run one after another in any order, in any *)
(* mode, with or without a statement of the store failing.                 *)
(***************************************************************************)
\* process_csv(file, mode) runs to its end.
RunProcessCsv(file, mode, fault) ==
    LET r == ProcessCsv(customers, file, mode, fault)
    IN /\ customers' = r.table
       /\ result' = [op |-> "process_csv", file |-> file, mode |-> mode,
                     fault |-> fault, stage |-> r.stage, before |-> customers,
                     out |-> r.out]

\* process_xml(file, mode) runs to its end.
RunProcessXml(file, mode, fault) ==
    LET r == ProcessXml(orders, file, mode, fault)
    IN /\ orders' = r.table
       /\ result' = [op |-> "process_xml", file |-> file, mode |-> mode,
                     fault |-> fault, stage |-> r.stage, before |-> orders,
                     out |-> r.out]

\* The store before the runs: customers of any content, or orders of any.
InitIngest ==
    /\ \/ customers \in CustomerTables /\ orders = {}
       \/ customers = {} /\ orders \in OrderTables
    /\ customers_df = NoneFrame
    /\ orders_df = NoneFrame
    /\ last_loaded = NeverLoaded
    /\ now = StartDay
    /\ result = NoResult
    /\ first_run = NoRun
    /\ loading = NoLoad
    /\ pool = PoolInit
    /\ callers = CallersInit

\* The files of the interleaved runs: those made of one well-formed and one
\* ill-formed kind of row, the unreadable file and the file without its
\* columns.  (SpecCsv and SpecXml run each pipeline alone on every file.)
IngestCsvFiles ==
    {f \in CsvFiles :
        \A i \in DOMAIN f.rows : f.rows[i] \in {CsvRowA, CsvRowShortMobile}}
IngestXmlFiles ==
    {f \in XmlFiles :
        \A i \in DOMAIN f.orders : f.orders[i] \in {XmlOrderA, XmlOrderBad}}

IngestCsv ==
    /\ Idle
    /\ \E file \in IngestCsvFiles, run \in RunChoices :
        RunProcessCsv(file, run[1], run[2])
    /\ UNCHANGED <<orders, engine_vars, now, first_run, loading, pool_vars>>

IngestXml ==
    /\ Idle
    /\ \E file \in IngestXmlFiles, run \in RunChoices :
        RunProcessXml(file, run[1], run[2])
    /\ UNCHANGED <<customers, engine_vars, now, first_run, loading, pool_vars>>

NextIngest == IngestCsv \/ IngestXml \/ Return

SpecIngest == InitIngest /\ [][NextIngest]_vars

(***************************************************************************)
(* The CSV pipeline alone, run any number of times on any file, from any   *)
(* content of the customers table.                                         *)
(***************************************************************************)
InitCsv ==
    /\ customers \in CustomerTables
    /\ orders = {}
    /\ customers_df = NoneFrame
    /\ orders_df = NoneFrame
    /\ last_loaded = NeverLoaded
    /\ now = StartDay
    /\ result = NoResult
    /\ first_run = NoRun
    /\ loading = NoLoad
    /\ pool = PoolInit
    /\ callers = CallersInit

CsvRun ==
    /\ Idle
    /\ \E file \in CsvFiles, run \in RunChoices :
        RunProcessCsv(file, run[1], run[2])
    /\ UNCHANGED <<orders, engine_vars, now, first_run, loading, pool_vars>>

NextCsv == CsvRun \/ Return

SpecCsv == InitCsv /\ [][NextCsv]_vars

(***************************************************************************)
(* The XML pipeline alone, run any number of times on any file, from any   *)
(* content of the orders table.                                            *)
(***************************************************************************)
InitXml ==
    /\ customers = {}
    /\ orders \in OrderTables
    /\ customers_df = NoneFrame
    /\ orders_df = NoneFrame
    /\ last_loaded = NeverLoaded
    /\ now = StartDay
    /\ result = NoResult
    /\ first_run = NoRun
    /\ loading = NoLoad
    /\ pool = PoolInit
    /\ callers = CallersInit

XmlRun ==
    /\ Idle
    /\ \E file \in XmlFiles, run \in RunChoices :
        RunProcessXml(file, run[1], run[2])
    /\ UNCHANGED <<customers, engine_vars, now, first_run, loading, pool_vars>>

NextXml == XmlRun \/ Return

SpecXml == InitXml /\ [][NextXml]_vars

(***************************************************************************)
(* process_csv run twice in a row on the same file in the same mode, from  *)
(* any content of the customers table.                                     *)
(***************************************************************************)
FirstRun ==
    /\ Idle
    /\ ~first_run.made
    /\ \E file \in CsvFiles, run \in RunChoices :
        /\ RunProcessCsv(file, run[1], run[2])
        /\ first_run' = [made |-> TRUE, again |-> FALSE, file |-> file,
                         mode |-> run[1], fault |-> run[2],
                         before |-> customers,
                         records_loaded |-> result'.out.value.records_loaded,
                         count |-> Cardinality(customers')]
    /\ UNCHANGED <<orders, engine_vars, now, loading, pool_vars>>

SecondRun ==
    /\ Idle
    /\ first_run.made
    /\ ~first_run.again
    /\ \E run \in RunChoices :
        /\ run[1] = first_run.mode
        /\ RunProcessCsv(first_run.file, first_run.mode, run[2])
        /\ first_run' = [first_run EXCEPT !.again = TRUE]
    /\ UNCHANGED <<orders, engine_vars, now, loading, pool_vars>>

NextRerun == FirstRun \/ SecondRun \/ Return

SpecRerun == InitCsv /\ [][NextRerun]_vars

(***************************************************************************)
(* Properties of the ingestion pipelines.                                  *)
(***************************************************************************)
\* The second of two runs of process_csv over one file has just returned,
\* both runs in mode mode and neither with a failing statement.
RanTwice(mode) ==
    /\ result.op = "process_csv"
    /\ first_run.made
    /\ first_run.again
    /\ first_run.mode = mode
    /\ first_run.fault = "none"
    /\ result.fault = "none"

\* C3 (checked under SpecRerun): from any content of the customers table,
\* process_csv(mode = 'replace') run twice in a row on the same file leaves
\* the table with as many rows after the second run as after the first, and
\* both runs report the same records_loaded.
C3_ReplaceTwiceSameCount ==
    RanTwice("replace") =>
        /\ Cardinality(customers) = first_run.count
        /\ result.out.value.records_loaded = first_run.records_loaded

\* A valid file of one customer has been loaded twice in replace mode over
\* a table that held two rows before the first run.
C3_Witness ==
    /\ RanTwice("replace")
    /\ result.out.value.success
    /\ Cardinality(first_run.before) = 2
    /\ first_run.records_loaded = 1
    /\ first_run.count = 1
    /\ Cardinality(customers) = 1

\* The file a pipeline run was given fails its load stage or its validate
\* stage.
LoadOrValidateFails ==
    CASE result.op = "process_csv" ->
            \/ IsNull(LoadCsv(result.file))
            \/ ~ValidateDataframe(result.file).is_valid
      [] result.op = "process_xml" ->
            \/ IsNull(LoadXml(result.file))
            \/ ~ValidateOrders(result.file.orders).is_valid
      [] OTHER -> FALSE

\* The table a pipeline run writes to.
TargetTable == IF result.op = "process_csv" THEN customers ELSE orders

\* C4 (checked under SpecCsv): after any sequence of process_csv calls
\* the customers table holds at most one row per customer_id, and appending
\* the file of an append that has just succeeded once more leaves the number
\* of rows as it is.
C4_OneRowPerCustomerId ==
    /\ \A r1, r2 \in customers : r1.customer_id = r2.customer_id => r1 = r2
    /\ (/\ result.op = "process_csv"
        /\ result.mode = "append"
        /\ result.fault = "none") =>
            Cardinality(ProcessCsv(customers, result.file, "append", "none").table)
                = Cardinality(customers)

\* An append of two customers has succeeded on a table that already held a
\* row with the customer_id of one of them, with another region.
C4_Witness ==
    /\ result.op = "process_csv"
    /\ result.mode = "append"
    /\ result.out.value.success
    /\ result.out.value.records_loaded = 2
    /\ Cardinality(customers) = 2
    /\ \E old \in result.before : \E new \in customers :
        /\ old.customer_id = new.customer_id
        /\ old.region # new.region

\* C5 (checked under SpecIngest): when the load stage or the validate stage
\* of process_csv or process_xml fails, the run returns success = false and
\* records_loaded = 0 and its target table is as it was before the call, in
\* replace mode as in append mode.
C5_FailedStageWritesNothing ==
    LoadOrValidateFails =>
        /\ ~result.out.raised
        /\ ~result.out.value.success
        /\ result.out.value.records_loaded = 0
        /\ TargetTable = result.before

\* process_csv in replace mode has rejected a file at validation while the
\* customers table held rows.
C5_Witness ==
    /\ result.op = "process_csv"
    /\ result.mode = "replace"
    /\ result.stage = "validate"
    /\ LoadOrValidateFails
    /\ Cardinality(result.before) = 2
    /\ Len(result.out.value.errors) = 2

\* The same for process_xml, and for a file that cannot be read.
C5_XmlCase ==
    /\ result.op = "process_xml"
    /\ result.mode = "replace"
    /\ result.stage = "load"
    /\ LoadOrValidateFails
    /\ Cardinality(result.before) = 2

(***************************************************************************)
(* Concurrent callers of execute_query / execute_many, each going through  *)
(* get_cursor step by step.  The pool's queue makes taking and returning a *)
(* connection atomic.                                                      *)
(***************************************************************************)
InitPool ==
    /\ customers = {}
    /\ orders = {}
    /\ customers_df = NoneFrame
    /\ orders_df = NoneFrame
    /\ last_loaded = NeverLoaded
    /\ now = StartDay
    /\ result = NoResult
    /\ first_run = NoRun
    /\ loading = NoLoad
    /\ pool = PoolInit
    /\ callers = CallersInit

store_vars == <<customers, orders, engine_vars, now, result, first_run,
               loading>>

Step(t, change) == callers' = [callers EXCEPT ![t] = change]

\* connection = self.get_connection(): a connection of the queue, or the
\* pool's error (a mysql.connector Error) when the queue is empty or the
\* server cannot be reached.
GetConnection(t) ==
    /\ callers[t].pc = "idle"
    /\ \/ \E c \in pool.free :
            /\ pool' = [pool EXCEPT !.free = pool.free \ {c}]
            /\ Step(t, [callers[t] EXCEPT !.pc = "connected", !.connection = c,
                                          !.used = c])
       \/ /\ Step(t, [callers[t] EXCEPT !.pc = "except", !.raised = "Error"])
          /\ UNCHANGED pool
    /\ UNCHANGED store_vars

\* cursor = connection.cursor(dictionary=dictionary)
OpenCursor(t) ==
    /\ callers[t].pc = "connected"
    /\ \/ Step(t, [callers[t] EXCEPT !.pc = "body", !.cursor = "open"])
       \/ Step(t, [callers[t] EXCEPT !.pc = "except", !.raised = "Error"])
    /\ UNCHANGED <<pool, store_vars>>

\* yield cursor: the body of the with statement runs its statement(s); it
\* completes, or the driver raises an Error, or something else is raised,
\* with or without work done in the transaction.
Body(t) ==
    /\ callers[t].pc = "body"
    /\ \E worked \in BOOLEAN, outcome \in {"completed", "Error", "other"} :
        /\ pool' = [pool EXCEPT !.pending[callers[t].connection] = worked]
        /\ Step(t, CASE outcome = "completed" -> [callers[t] EXCEPT !.pc = "commit"]
                     [] outcome = "Error" ->
                            [callers[t] EXCEPT !.pc = "except", !.raised = "Error"]
                     [] outcome = "other" ->
                            [callers[t] EXCEPT !.pc = "finally", !.raised = "other"])
    /\ UNCHANGED store_vars

\* connection.commit()
Commit(t) ==
    /\ callers[t].pc = "commit"
    /\ \/ /\ pool' = [pool EXCEPT !.pending[callers[t].connection] = FALSE]
          /\ Step(t, [callers[t] EXCEPT !.pc = "finally", !.ended = "commit"])
       \/ /\ Step(t, [callers[t] EXCEPT !.pc = "except", !.raised = "Error"])
          /\ UNCHANGED pool
    /\ UNCHANGED store_vars

\* except Error: if connection: connection.rollback(); raise
Except(t) ==
    /\ callers[t].pc = "except"
    /\ IF callers[t].connection # NoConnection
       THEN /\ pool' = [pool EXCEPT !.pending[callers[t].connection] = FALSE]
            /\ Step(t, [callers[t] EXCEPT !.pc = "finally", !.ended = "rollback"])
       ELSE /\ Step(t, [callers[t] EXCEPT !.pc = "finally"])
            /\ UNCHANGED pool
    /\ UNCHANGED store_vars

\* finally: if cursor: cursor.close()
CloseCursor(t) ==
    /\ callers[t].pc = "finally"
    /\ Step(t, [callers[t] EXCEPT
                    !.pc = "close_connection",
                    !.cursor = IF callers[t].cursor = "open" THEN "closed"
                               ELSE callers[t].cursor])
    /\ UNCHANGED <<pool, store_vars>>

\* finally: if connection: connection.close().  The pool resets the session
\* of a connection it takes back (pool_reset_session), which discards work
\* that was neither committed nor rolled back.
CloseConnection(t) ==
    /\ callers[t].pc = "close_connection"
    /\ IF callers[t].connection # NoConnection
       THEN pool' = [free |-> ReturnToPool(pool.free, callers[t].connection),
                     pending |-> [pool.pending EXCEPT ![callers[t].connection] = FALSE]]
       ELSE UNCHANGED pool
    /\ Step(t, [callers[t] EXCEPT !.pc = "done", !.connection = NoConnection])
    /\ UNCHANGED store_vars

\* The caller has its rows or its exception, and may call again.
Finish(t) ==
    /\ callers[t].pc = "done"
    /\ Step(t, CallerIdle)
    /\ UNCHANGED <<pool, store_vars>>

NextPool ==
    \E t \in Callers :
        \/ GetConnection(t)
        \/ OpenCursor(t)
        \/ Body(t)
        \/ Commit(t)
        \/ Except(t)
        \/ CloseCursor(t)
        \/ CloseConnection(t)
        \/ Finish(t)

SpecPool == InitPool /\ [][NextPool]_vars

(***************************************************************************)
(* Properties of the scoped cursor and the pool (checked under SpecPool).  *)
(***************************************************************************)
\* C8: every use of get_cursor ends in one of two ways: the body completed
\* and the transaction was committed, or an exception of any kind was
\* raised and get_cursor rolled the transaction back before the exception
\* reached the caller; either way the cursor is closed and the connection
\* is back in the pool.
C8_CommitOrRollbackThenRelease ==
    \A t \in Callers :
        callers[t].pc = "done" =>
            /\ \/ callers[t].raised = "none" /\ callers[t].ended = "commit"
               \/ /\ callers[t].raised # "none"
                  /\ callers[t].used # NoConnection => callers[t].ended = "rollback"
            /\ callers[t].cursor # "open"
            /\ callers[t].connection = NoConnection

\* The same for the exceptions the driver raises (mysql.connector's Error).
C8_DriverErrorsRollBack ==
    \A t \in Callers :
        (callers[t].pc = "done" /\ callers[t].raised # "other") =>
            /\ \/ callers[t].raised = "none" /\ callers[t].ended = "commit"
               \/ /\ callers[t].raised = "Error"
                  /\ callers[t].used # NoConnection => callers[t].ended = "rollback"
            /\ callers[t].cursor # "open"
            /\ callers[t].connection = NoConnection

\* The callers that hold a connection.
Holding == {t \in Callers : callers[t].connection # NoConnection}

\* C9: no connection is held by two callers at once (nor held by one while
\* it is in the pool), the connections checked out are never more than the
\* pool has, and when no caller is inside get_cursor every connection is
\* in the pool.
C9_ConnectionsAreExclusive ==
    /\ \A t1, t2 \in Holding :
        callers[t1].connection = callers[t2].connection => t1 = t2
    /\ \A t \in Holding : callers[t].connection \notin pool.free
    /\ Cardinality(Holding) <= PoolSize
    /\ Cardinality(Connections \ pool.free) <= PoolSize
    /\ (\A t \in Callers : callers[t].pc \in {"idle", "done"}) =>
            pool.free = Connections

\* Every connection of the pool is held, each by another caller, and one
\* more caller has been refused a connection.
C9_Witness ==
    /\ pool.free = {}
    /\ Cardinality(Holding) = PoolSize
    /\ \E t \in Callers \ Holding :
        callers[t].raised = "Error" /\ callers[t].used = NoConnection

\* All callers have finished, one by commit and one by an exception that is
\* not the driver's, and every connection is back in the pool.
C9_AllFinished ==
    /\ \A t \in Callers : callers[t].pc = "done"
    /\ \E t \in Callers : callers[t].ended = "commit"
    /\ \E t \in Callers : callers[t].raised = "other" /\ callers[t].used # NoConnection
    /\ pool.free = Connections


(***************************************************************************)
(* top_customers of both engines over a store whose orders fall on two     *)
(* days, one near now and one further back, so that a window may take some *)
(* of a customer's orders and leave others out.                            *)
(***************************************************************************)
WindowDays == <<59, 40>>

WindowOrderRow(i, ch) ==
    [order_id |-> OrderKeys[i], mobile_number |-> CustomerMobiles[ch[1]],
     order_date_time |-> WindowDays[ch[3]], sku_id |-> SkuX, sku_count |-> 1,
     total_amount |-> Amounts[ch[2]]]

WindowOrderChoices ==
    {<<m, a, d>> : m \in DOMAIN CustomerMobiles, a \in DOMAIN Amounts,
                   d \in DOMAIN WindowDays}

WindowOrderTables == TableContents(MaxOrders, WindowOrderChoices, WindowOrderRow)

\* The (days, limit) a caller passes: days >= 0 and limit >= 1.
WindowParams ==
    {[days |-> d, limit |-> l, extra |-> FALSE] :
        d \in {0, 1, DefaultDays}, l \in {1, DefaultLimit}}

InitTop ==
    /\ customers \in CustomerTables
    /\ orders \in WindowOrderTables
    /\ customers_df = NoneFrame
    /\ orders_df = NoneFrame
    /\ last_loaded = NeverLoaded
    /\ now = StartDay
    /\ result = NoResult
    /\ first_run = NoRun
    /\ loading = NoLoad
    /\ pool = PoolInit
    /\ callers = CallersInit

\* table_kpi_engine.calculate_kpi('top_customers', days=, limit=)
TableTop ==
    /\ Idle
    /\ \E params \in WindowParams :
        \E out \in TableCalculateKpi("top_customers", customers, orders, params,
                                     FALSE, now) :
            /\ result' = [op |-> "table.calculate_kpi", name |-> "top_customers",
                          params |-> params, failing |-> FALSE, out |-> out]
            /\ UNCHANGED <<customers, orders, engine_vars, now, first_run, loading,
                           pool_vars>>

\* memory_kpi_engine.calculate_top_customers_last_30_days(days, limit)
MemoryTop ==
    /\ Idle
    /\ \E params \in WindowParams :
        \E r \in CalculateTopCustomers(MemoryState, customers, orders,
                                       params.days, params.limit, "none", now) :
            /\ SetMemoryState(r.ms)
            /\ result' = [op |-> "memory.calculate", name |-> "top_customers",
                          params |-> params, out |-> Returned(r.ret)]
            /\ UNCHANGED <<customers, orders, now, first_run, loading, pool_vars>>

NextTop == TableTop \/ MemoryTop \/ Return

SpecTop == InitTop /\ [][NextTop]_vars

(***************************************************************************)
(* Properties of top_customers (checked under SpecTop and SpecKpi).        *)
(***************************************************************************)
\* The top_customers envelopes in the result of the last call, each with the
\* engine that made it and the keyword arguments of the call.
TopEnvelopes ==
    CASE result.op = "table.calculate_kpi" /\ result.name = "top_customers" ->
            {[method |-> "sql", env |-> result.out.value]}
      [] result.op = "table.calculate_all_kpis" /\ ~result.out.raised ->
            {[method |-> "sql", env |-> result.out.value.top_customers]}
      [] MemoryReturned("top_customers") ->
            {[method |-> "memory", env |-> result.out.value]}
      [] /\ result.op = "memory.calculate_all_kpis"
         /\ ~result.out.raised
         /\ "top_customers" \in DOMAIN result.out.value ->
            {[method |-> "memory", env |-> result.out.value.top_customers]}
      [] OTHER -> {}

\* The orders of customer c placed days or fewer days before now.
InWindow(c, days) ==
    {o \in orders : /\ o.mobile_number = c.mobile_number
                    /\ o.order_date_time >= now - days}

RECURSIVE SpendOf(_)
SpendOf(os) ==
    IF os = {} THEN 0
    ELSE LET o == CHOOSE x \in os : TRUE
         IN o.total_amount + SpendOf(os \ {o})

\* C11: for top_customers with days >= 0 and limit >= 1, in both engines,
\* data has at most limit rows; each row's order_count and total_spend
\* aggregate exactly the orders of its customer dated now - days or later;
\* the rows are in non-increasing total_spend order; and no customer left
\* out has a larger in-window total_spend than a customer included.
C11_TopCustomersOfWindow ==
    \A x \in TopEnvelopes :
        x.env.success =>
            LET data == x.env.data
                days == result.params.days
                included == {data[i].customer_id : i \in DOMAIN data}
            IN /\ Len(data) <= result.params.limit
               /\ \A i \in DOMAIN data :
                    \E c \in customers :
                        /\ c.customer_id = data[i].customer_id
                        /\ InWindow(c, days) # {}
                        /\ data[i].order_count = Cardinality(InWindow(c, days))
                        /\ data[i].total_spend = SpendOf(InWindow(c, days))
               /\ \A i, j \in DOMAIN data :
                    i < j => data[i].total_spend >= data[j].total_spend
               /\ \A i, j \in DOMAIN data :
                    i # j => data[i].customer_id # data[j].customer_id
               /\ \A c \in customers :
                    c.customer_id \notin included =>
                        \A i \in DOMAIN data :
                            SpendOf(InWindow(c, days)) <= data[i].total_spend

\* The memory engine has returned one row under limit = 1 for a store in
\* which two customers have orders in the window, and the customer included
\* also has an order outside the window.
C11_Witness ==
    \E x \in TopEnvelopes :
        /\ x.env.success
        /\ x.method = "memory"
        /\ result.params.limit = 1
        /\ Len(x.env.data) = 1
        /\ \E c \in customers :
            /\ c.customer_id \notin {x.env.data[i].customer_id : i \in DOMAIN x.env.data}
            /\ InWindow(c, result.params.days) # {}
        /\ \E c \in customers, o \in orders :
            /\ c.customer_id = x.env.data[1].customer_id
            /\ o.mobile_number = c.mobile_number
            /\ o.order_date_time < now - result.params.days

\* The same reached by the table engine.
C11_TableCase ==
    \E x \in TopEnvelopes :
        /\ x.env.success
        /\ x.method = "sql"
        /\ result.params.limit = 1
        /\ Len(x.env.data) = 1
        /\ \E c \in customers :
            /\ c.customer_id \notin {x.env.data[i].customer_id : i \in DOMAIN x.env.data}
            /\ InWindow(c, result.params.days) # {}

(***************************************************************************)
(* Properties of regional_revenue (checked under SpecKpi).                 *)
(***************************************************************************)
\* The rows of a regional_revenue result for region r.
RowsOfRegion(data, r) == {i \in DOMAIN data : data[i].region = r}

\* Region r has a customer, and no customer of it has an order with the
\* customer's mobile number.
RegionWithoutOrders(r) ==
    /\ \E c \in customers : c.region = r
    /\ \A c \in customers, o \in orders :
        c.region = r => o.mobile_number # c.mobile_number

\* C12: in regional_revenue of both engines every region that has at least
\* one customer appears in exactly one data row, and a region none of whose
\* customers has a matching order appears with total_orders = 0 and
\* total_revenue = 0 (the value 0, not null).
C12_RegionsWithoutOrdersShowZero ==
    \A x \in RegionalEnvelopes :
        x.env.success =>
            \A r \in {c.region : c \in customers} :
                /\ Cardinality(RowsOfRegion(x.env.data, r)) = 1
                /\ RegionWithoutOrders(r) =>
                    \A i \in RowsOfRegion(x.env.data, r) :
                        /\ x.env.data[i].total_orders = 0
                        /\ x.env.data[i].total_revenue = Val(0)

\* The same of the memory engine alone, which fills the missing sums.
C12_MemoryEngineShowsZero ==
    \A x \in RegionalEnvelopes :
        x.method = "memory" => C12_RegionsWithoutOrdersShowZero

\* The memory engine has listed a region without orders next to one with.
C12_MemoryCase ==
    \E x \in RegionalEnvelopes :
        /\ x.method = "memory"
        /\ x.env.success
        /\ \E r \in {c.region : c \in customers} : RegionWithoutOrders(r)
        /\ \E i \in DOMAIN x.env.data : x.env.data[i].total_orders > 0

(***************************************************************************)
(* The memory engine next to the pipelines: the store starts empty, the    *)
(* pipelines write to it, and the engine loads and computes at any time in *)
(* between.                                                                *)
(***************************************************************************)
InitCache ==
    /\ customers = {}
    /\ orders = {}
    /\ customers_df = NoneFrame
    /\ orders_df = NoneFrame
    /\ last_loaded = NeverLoaded
    /\ now = StartDay
    /\ result = NoResult
    /\ first_run = NoRun
    /\ loading = NoLoad
    /\ pool = PoolInit
    /\ callers = CallersInit

NextCache ==
    IngestCsv \/ IngestXml \/ MemoryLoad \/ MemoryKpi \/ MemoryAll \/ Return

SpecCache == InitCache /\ [][NextCache]_vars

\* A computation of the memory engine is made in this step.
MemoryComputes ==
    /\ Idle
    /\ result'.op \in {"memory.calculate", "memory.calculate_all_kpis"}

\* C13: once load_data() has succeeded, a KPI computation of the memory
\* engine works on the cached frames only, whatever they contain: it does
\* not read the store, so the frames and the time of the last load stay as
\* load_data() left them.
C13_ComputationsKeepTheCache ==
    [][(~IsNull(last_loaded) /\ MemoryComputes) => UNCHANGED engine_vars]_vars

\* The same when the cached orders frame has rows.
C13_NonEmptyCacheIsKept ==
    [][(~IsNull(last_loaded) /\ orders_df.rows # {} /\ MemoryComputes)
            => UNCHANGED engine_vars]_vars

\* A computation has returned rows from frames that are older than the
\* store: the order the store holds now is not in the cached frame.
C13_StaleCase ==
    /\ MemoryReturned("monthly_trends")
    /\ result.out.value.success
    /\ orders_df.rows # orders

(***************************************************************************)
(* normalize_mobile_number applied to any text made of seven or eight      *)
(* digits with a few other characters put anywhere in it, to sixteen       *)
(* digits with at most one, and to a missing value.                        *)
(***************************************************************************)
MaxExtras == 2

Digits7 == <<"1", "2", "3", "4", "5", "6", "7">>
Digits8 == Digits7 \o <<"8">>
Digits16 == Digits8 \o Digits8

ExtraChars == {"+", "-", " "}

InsertAt(s, i, ch) == SubSeq(s, 1, i) \o <<ch>> \o SubSeq(s, i + 1, Len(s))

RECURSIVE WithExtras(_, _)
WithExtras(S, n) ==
    IF n = 0 THEN S
    ELSE S \cup WithExtras(UNION {{InsertAt(s, i, ch) :
                                      i \in 0..Len(s), ch \in ExtraChars} :
                                   s \in S}, n - 1)

MobileInputs ==
    {Val(s) : s \in WithExtras({Digits7, Digits8}, MaxExtras)
                    \cup WithExtras({Digits16}, 1)}
    \cup {Val(<<>>), Null, NaN}

InitNormalize ==
    /\ customers = {}
    /\ orders = {}
    /\ customers_df = NoneFrame
    /\ orders_df = NoneFrame
    /\ last_loaded = NeverLoaded
    /\ now = StartDay
    /\ result = NoResult
    /\ first_run = NoRun
    /\ loading = NoLoad
    /\ pool = PoolInit
    /\ callers = CallersInit

\* DataValidator.normalize_mobile_number(mobile)
Normalize ==
    /\ Idle
    /\ \E mobile \in MobileInputs :
        result' = [op |-> "normalize_mobile_number", mobile |-> mobile,
                   out |-> Returned(NormalizeMobileNumber(mobile))]
    /\ UNCHANGED <<customers, orders, engine_vars, now, first_run, loading, pool_vars>>

NextNormalize == Normalize \/ Return

SpecNormalize == InitNormalize /\ [][NextNormalize]_vars

\* The digits of a text, in their order.
DigitsOf(s) == SelectSeq(s, IsDigit)

\* The text of a value passed as a mobile number: a missing value has none.
MobileText(c) == IF c.null THEN <<>> ELSE c.v

\* C14: normalize_mobile_number returns null for every input with fewer
\* than 8 digits, and for every other input the input's digits in their
\* order, preceded by '+' only when the first kept character of the input is
\* '+': a result has no '+' after position 0, and no upper bound on the
\* number of digits is applied.
C14_NormalizedIsDigitsWithLeadingPlus ==
    result.op = "normalize_mobile_number" =>
        LET text == MobileText(result.mobile)
            kept == SelectSeq(text, IsDigitOrPlus)
            out == result.out.value
        IN IF Len(DigitsOf(text)) < MinMobileDigits
           THEN out = Null
           ELSE out = Val((IF Head(kept) = "+" THEN <<"+">> ELSE <<>>)
                          \o DigitsOf(text))

\* What does hold: null below 8 digits, otherwise the digits in their order
\* with every '+' of the input left where it was, whatever their number.
C14_DigitsAndEveryPlusKept ==
    result.op = "normalize_mobile_number" =>
        LET text == MobileText(result.mobile)
            out == result.out.value
        IN IF Len(DigitsOf(text)) < MinMobileDigits
           THEN out = Null
           ELSE /\ ~IsNull(out)
                /\ DigitsOf(out.v) = DigitsOf(text)
                /\ out.v = SelectSeq(text, IsDigitOrPlus)

\* A text of sixteen digits has been normalized to itself.
C14_LongCase ==
    /\ result.op = "normalize_mobile_number"
    /\ result.out.value = Val(Digits16)

(***************************************************************************)
(* Properties of validation (checked under SpecIngest, SpecCsv, SpecXml).  *)
(***************************************************************************)
\* The positions of the rows of a file that validation finds a problem in.
InvalidCsvRows(file) ==
    {i \in DOMAIN file.rows : CustomerRowErrors(file.rows[i]) # <<>>}
InvalidXmlOrders(file) ==
    {i \in DOMAIN file.orders : OrderErrors(file.orders[i]) # <<>>}

\* The errors list names the rows at the positions in bad, one entry each,
\* in increasing order, each labelled with its position plus offset.
OneEntryPerRow(errors, bad, offset) ==
    /\ Len(errors) = Cardinality(bad)
    /\ {errors[k].label : k \in DOMAIN errors} = {i + offset : i \in bad}
    /\ \A j, k \in DOMAIN errors : j < k => errors[j].label < errors[k].label
    /\ \A k \in DOMAIN errors : errors[k].fields # <<>>

\* C15: when validation of a non-empty, correctly structured input fails,
\* the errors list has exactly one entry for each invalid row and none for a
\* valid row, in input order, each labelled with the row's 1-based position
\* (one more in CSV, for the header line): every row is inspected.
C15_OneErrorPerInvalidRow ==
    /\ (/\ result.op = "process_csv"
        /\ result.file.readable
        /\ result.file.has_columns
        /\ InvalidCsvRows(result.file) # {}) =>
            /\ ~result.out.value.success
            /\ OneEntryPerRow(result.out.value.errors,
                              InvalidCsvRows(result.file), 1)
    /\ (/\ result.op = "process_xml"
        /\ result.file.readable
        /\ InvalidXmlOrders(result.file) # {}) =>
            /\ ~result.out.value.success
            /\ OneEntryPerRow(result.out.value.errors,
                              InvalidXmlOrders(result.file), 0)

\* process_csv has rejected a file whose first and second data rows are both
\* invalid: two entries, for lines 2 and 3.
C15_Witness ==
    /\ result.op = "process_csv"
    /\ InvalidCsvRows(result.file) = {1, 2}
    /\ Len(result.out.value.errors) = 2
    /\ result.out.value.errors[1].label = 2
    /\ result.out.value.errors[2].label = 3

\* process_xml has rejected a file whose first order is valid and whose
\* second is not: one entry, for order 2.
C15_XmlCase ==
    /\ result.op = "process_xml"
    /\ InvalidXmlOrders(result.file) = {2}
    /\ Len(result.out.value.errors) = 1
    /\ result.out.value.errors[1].label = 2

(***************************************************************************)
(* Properties of calculate_all_kpis (checked under SpecKpi).               *)
(***************************************************************************)
\* calculate_all_kpis of either engine has returned or raised, called with
\* keyword arguments it knows.
AllKpisCalled ==
    /\ result.op \in {"table.calculate_all_kpis", "memory.calculate_all_kpis"}
    /\ ~result.params.extra

\* C16: calculate_all_kpis of either engine always returns a mapping whose
\* keys are exactly repeat_customers, monthly_trends, regional_revenue and
\* top_customers, each mapped to an envelope with a success flag, also when
\* the store cannot be read (for the memory engine: when load_data fails).
C16_AllKpisReturnsTheFourKeys ==
    AllKpisCalled =>
        /\ ~result.out.raised
        /\ IsKpiMapping(result.out.value)
        /\ \A k \in KpiNames : "success" \in DOMAIN result.out.value[k]

\* The same of the table engine alone, every query failing included.
C16_TableEngineReturnsTheFourKeys ==
    result.op = "table.calculate_all_kpis" => C16_AllKpisReturnsTheFourKeys

\* The table engine has returned four failure envelopes.
C16_TableCase ==
    /\ result.op = "table.calculate_all_kpis"
    /\ result.failing = KpiNames
    /\ \A k \in KpiNames : ~result.out.value[k].success

(***************************************************************************)
(* The pipelines run on files whose rows differ in their mobile number:    *)
(* too short, as long as allowed, and longer.  The store starts empty, so  *)
(* every row in it has been written by a run.                              *)
(***************************************************************************)
MaxMobileDigits == 15

Digits15 == Digits8 \o Digits7

MobileTexts == {Digits7, Digits15, Digits16}

\* Row number i of a file, with the mobile number m.
MobileCsvRow(i, m) ==
    [CsvRowA EXCEPT !.customer_id = Val(CustomerKeys[i]),
                    !.mobile_number = Val(m)]
MobileXmlOrder(i, m) ==
    [XmlOrderA EXCEPT !.order_id = Val(OrderKeys[i]),
                      !.mobile_number = Val(m)]

MobileCsvFiles ==
    {[readable |-> TRUE, has_columns |-> TRUE,
      rows |-> [i \in 1..n |-> MobileCsvRow(i, ms[i])]] :
        n \in 0..MaxFileRows, ms \in [1..MaxFileRows -> MobileTexts]}
MobileXmlFiles ==
    {[readable |-> TRUE, orders |-> [i \in 1..n |-> MobileXmlOrder(i, ms[i])]] :
        n \in 0..MaxFileRows, ms \in [1..MaxFileRows -> MobileTexts]}

MobileCsv ==
    /\ Idle
    /\ \E file \in MobileCsvFiles, run \in RunChoices :
        RunProcessCsv(file, run[1], run[2])
    /\ UNCHANGED <<orders, engine_vars, now, first_run, loading, pool_vars>>

MobileXml ==
    /\ Idle
    /\ \E file \in MobileXmlFiles, run \in RunChoices :
        RunProcessXml(file, run[1], run[2])
    /\ UNCHANGED <<customers, engine_vars, now, first_run, loading, pool_vars>>

NextMobile == MobileCsv \/ MobileXml \/ Return

SpecMobile == InitCache /\ [][NextMobile]_vars

\* A text of digits with at most one '+', in front.
DigitsAfterPlus(m) == IF m # <<>> /\ Head(m) = "+" THEN Tail(m) ELSE m

\* C17: every mobile_number written to the customers or orders table by a
\* successful process_csv / process_xml is a normalized text of 8 to 15
\* digits with an optional single leading '+': a row whose mobile number has
\* more than 15 digits is never stored.
C17_StoredMobilesHave8To15Digits ==
    \A r \in customers \cup orders :
        LET d == DigitsAfterPlus(r.mobile_number)
        IN /\ \A i \in DOMAIN d : IsDigit(d[i])
           /\ MinMobileDigits <= Len(d)
           /\ Len(d) <= MaxMobileDigits

\* What does hold: a stored mobile number has digits and '+' only, and at
\* least 8 digits.
C17_StoredMobilesHave8Digits ==
    \A r \in customers \cup orders :
        /\ \A i \in DOMAIN r.mobile_number : IsDigitOrPlus(r.mobile_number[i])
        /\ Len(DigitsOf(r.mobile_number)) >= MinMobileDigits

\* Both tables hold a row with a mobile number of fifteen digits.
C17_FifteenCase ==
    /\ \E r \in customers : r.mobile_number = Digits15
    /\ \E r \in orders : r.mobile_number = Digits15

(***************************************************************************)
(* process_csv run on files in which a data row may have one empty cell    *)
(* (read by pandas as NaN), from any content of the customers table.       *)
(***************************************************************************)
CustomerFields == {"customer_id", "customer_name", "mobile_number", "region"}

\* The row of CsvRowA with the cell of column f empty.
CsvRowMissing(f) == [CsvRowA EXCEPT ![f] = NaN]

MissingCsvFiles ==
    {[readable |-> TRUE, has_columns |-> TRUE, rows |-> rows] :
        rows \in SeqsUpTo({CsvRowB} \cup {CsvRowMissing(f) : f \in CustomerFields},
                          MaxFileRows)}

MissingCsv ==
    /\ Idle
    /\ \E file \in MissingCsvFiles, run \in RunChoices :
        RunProcessCsv(file, run[1], run[2])
    /\ UNCHANGED <<orders, engine_vars, now, first_run, loading, pool_vars>>

NextMissing == MissingCsv \/ Return

SpecMissing == InitCsv /\ [][NextMissing]_vars

\* The positions of the data rows of a file that have an empty cell in
\* column f.
RowsMissing(file, f) == {i \in DOMAIN file.rows : IsNull(file.rows[i][f])}

\* process_csv has rejected the file with one error for each row in bad and
\* has left the customers table as it was.
RejectedFor(bad) ==
    /\ ~result.out.value.success
    /\ result.out.value.records_loaded = 0
    /\ \A i \in bad : \E k \in DOMAIN result.out.value.errors :
            result.out.value.errors[k].label = i + 1
    /\ customers = result.before

\* C18: process_csv returns success = false with an error for the row, and
\* writes nothing, whenever a data row of the file has an empty value for
\* customer_id, customer_name, mobile_number or region; such a row is never
\* stored and never dropped from a run that succeeds.
C18_EmptyValueRejectsTheFile ==
    result.op = "process_csv" =>
        \A f \in CustomerFields :
            RowsMissing(result.file, f) # {} =>
                RejectedFor(RowsMissing(result.file, f))

\* What does hold: an empty mobile_number rejects the file.
C18_EmptyMobileRejectsTheFile ==
    result.op = "process_csv" =>
        (RowsMissing(result.file, "mobile_number") # {} =>
            RejectedFor(RowsMissing(result.file, "mobile_number")))

\* A run has succeeded and stored the row without customer_id under 'nan'.
C18_StoredAsNan ==
    /\ result.op = "process_csv"
    /\ result.out.value.success
    /\ \E r \in customers : r.customer_id = <<"n", "a", "n">>

\* A run has succeeded with the row without customer_name left out: the
\* file has two rows and one record is loaded.
C18_SilentlyDropped ==
    /\ result.op = "process_csv"
    /\ result.out.value.success
    /\ Len(result.file.rows) = 2
    /\ RowsMissing(result.file, "customer_name") = {1}
    /\ result.out.value.records_loaded = 1

\* The metadata of a top_customers envelope: the table engine merges it into
\* the envelope, the memory engine nests it under metadata.
TopMetadataOf(x) == IF x.method = "sql" THEN x.env ELSE x.env.metadata

\* C19: for top_customers in both engines and every store content, the
\* metadata carries time_period_days, top_customer_count and
\* total_revenue_top_customers, with top_customer_count the number of data
\* rows and total_revenue_top_customers the sum of total_spend over them;
\* when no order falls inside the window these are 0 rows, count 0 and
\* revenue 0.
C19_TopMetadataMatchesData ==
    \A x \in TopEnvelopes :
        x.env.success =>
            LET md == TopMetadataOf(x)
                data == x.env.data
            IN /\ {"time_period_days", "top_customer_count",
                   "total_revenue_top_customers"} \subseteq DOMAIN md
               /\ md.time_period_days = result.params.days
               /\ md.top_customer_count = Len(data)
               /\ md.total_revenue_top_customers =
                    SumSeq([i \in DOMAIN data |-> data[i].total_spend])

\* The same of the table engine alone.
C19_TableMetadataMatchesData ==
    \A x \in TopEnvelopes : x.method = "sql" => C19_TopMetadataMatchesData

\* The same of the memory engine when an order falls inside the window.
C19_MemoryMetadataMatchesRows ==
    \A x \in TopEnvelopes :
        (x.method = "memory" /\ x.env.success /\ x.env.data # <<>>) =>
            C19_TopMetadataMatchesData

\* The table engine has returned no row for an empty window, and two rows.
C19_TableEmptyWindow ==
    \E x \in TopEnvelopes :
        /\ x.method = "sql"
        /\ orders # {}
        /\ x.env.data = <<>>
        /\ x.env.total_revenue_top_customers = 0
C19_MemoryTwoRows ==
    \E x \in TopEnvelopes :
        /\ x.method = "memory"
        /\ x.env.success
        /\ Len(x.env.data) = 2
        /\ x.env.metadata.total_revenue_top_customers >= 3

(***************************************************************************)
(* Replace mode when the batch upsert fails (checked under SpecIngest).    *)
(***************************************************************************)
\* A run in replace mode has reached its batch upsert, and the upsert has
\* failed.
ReplaceUpsertFailed ==
    /\ result.op \in {"process_csv", "process_xml"}
    /\ result.mode = "replace"
    /\ result.fault = "upsert"
    /\ ~LoadOrValidateFails

\* C20: in replace mode the delete of the target table is committed on its
\* own before the batch upsert starts: when the upsert then fails, none of
\* its rows is written, the run returns success = false with
\* records_loaded = 0, and the target table is left empty (the rows it held
\* before the run are not restored).
C20_FailedUpsertLeavesTableEmpty ==
    ReplaceUpsertFailed =>
        /\ ~result.out.value.success
        /\ result.out.value.records_loaded = 0
        /\ result.out.value.errors # <<>>
        /\ TargetTable = {}

\* process_csv in replace mode has lost the two rows the customers table
\* held: the upsert of a well-formed file failed after the delete.
C20_Witness ==
    /\ ReplaceUpsertFailed
    /\ result.op = "process_csv"
    /\ Cardinality(result.before) = 2
    /\ Len(result.file.rows) >= 1
    /\ customers = {}

\* The same for process_xml.
C20_XmlCase ==
    /\ ReplaceUpsertFailed
    /\ result.op = "process_xml"
    /\ Cardinality(result.before) = 2
    /\ orders = {}

\* In append mode a failed upsert leaves the table as it was.
C20_AppendKeepsTheTable ==
    (/\ result.op \in {"process_csv", "process_xml"}
     /\ result.mode = "append"
     /\ result.fault = "upsert") => TargetTable = result.before

(***************************************************************************)
(* Both pipelines run on files whose rows carry keys the store may already *)
(* hold, with other values than the stored ones.                           *)
(***************************************************************************)
\* The order_id of XmlOrderA with another mobile number, day and sku_id.
XmlOrderA3 ==
    [order_id |-> Val(OrderKeys[1]), mobile_number |-> Val(MobileC),
     order_date_time |-> IsoDate(FileDay - 1), sku_id |-> Val(<<"S", "2">>),
     sku_count |-> Val(<<"3">>), total_amount |-> Val(<<"4">>)]

UpsertCsvFiles ==
    {f \in CsvFiles :
        \A i \in DOMAIN f.rows : f.rows[i] \in {CsvRowA2, CsvRowB}}
UpsertXmlFiles ==
    {[readable |-> TRUE, orders |-> os] :
        os \in SeqsUpTo({XmlOrderA, XmlOrderA3}, MaxFileRows)}

UpsertCsv ==
    /\ Idle
    /\ \E file \in UpsertCsvFiles, run \in RunChoices :
        RunProcessCsv(file, run[1], run[2])
    /\ UNCHANGED <<orders, engine_vars, now, first_run, loading, pool_vars>>

UpsertXml ==
    /\ Idle
    /\ \E file \in UpsertXmlFiles, run \in RunChoices :
        RunProcessXml(file, run[1], run[2])
    /\ UNCHANGED <<customers, engine_vars, now, first_run, loading, pool_vars>>

NextUpsert == UpsertCsv \/ UpsertXml \/ Return

SpecUpsert == InitIngest /\ [][NextUpsert]_vars

\* A run in append mode that reached the store and succeeded.
AppendSucceeded(op) ==
    /\ ~Idle
    /\ result.op = op
    /\ result.mode = "append"
    /\ result.out.value.success

\* The rows the run sent to the store.
SentCustomers == CustomerTuples(CleanDataframe(result.file))
SentOrders == CleanOrders(result.file.orders)

C21_XmlCase ==
    /\ AppendSucceeded("process_xml")
    /\ \E r \in result.before : \E i \in DOMAIN SentOrders : \E r2 \in orders :
        /\ SentOrders[i].order_id = r.order_id
        /\ r2.order_id = r.order_id
        /\ SentOrders[i].mobile_number # r.mobile_number
        /\ SentOrders[i].order_date_time # r.order_date_time
        /\ SentOrders[i].sku_id # r.sku_id
        /\ r2.mobile_number = r.mobile_number
        /\ r2.order_date_time = r.order_date_time
        /\ r2.sku_id = r.sku_id
        /\ r2.sku_count = SentOrders[i].sku_count
        /\ r2.sku_count # r.sku_count

(***************************************************************************)
(* The memory engine's top_customers while time passes: the frames are     *)
(* loaded by the first call and kept, and the clock moves on between the   *)
(* calls.                                                                  *)
(***************************************************************************)
MaxTicks == 2

\* One customer for each mobile number.
ClockCustomers == {CustomerRow(1, <<1, 1>>), CustomerRow(2, <<2, 2>>)}

\* The windows that have an order of the store on their first day at the
\* start or one day later.
ClockParams ==
    {[days |-> d, limit |-> DefaultLimit, extra |-> FALSE] :
        d \in {StartDay - WindowDays[1], StartDay - WindowDays[1] + 1,
               StartDay - WindowDays[2]}}

InitClock ==
    /\ customers = ClockCustomers
    /\ orders \in WindowOrderTables
    /\ customers_df = NoneFrame
    /\ orders_df = NoneFrame
    /\ last_loaded = NeverLoaded
    /\ now = StartDay
    /\ result = NoResult
    /\ first_run = NoRun
    /\ loading = NoLoad
    /\ pool = PoolInit
    /\ callers = CallersInit

\* A day passes.
Tick ==
    /\ Idle
    /\ now < StartDay + MaxTicks
    /\ now' = now + 1
    /\ UNCHANGED <<customers, orders, engine_vars, result, first_run, loading, pool_vars>>

\* memory_kpi_engine.calculate_top_customers_last_30_days(days, limit)
ClockTop ==
    /\ Idle
    /\ \E params \in ClockParams :
        \E r \in CalculateTopCustomers(MemoryState, customers, orders,
                                       params.days, params.limit, "none", now) :
            /\ SetMemoryState(r.ms)
            /\ result' = [op |-> "memory.calculate", name |-> "top_customers",
                          params |-> params, out |-> Returned(r.ret)]
            /\ UNCHANGED <<customers, orders, now, first_run, loading, pool_vars>>

NextClock == ClockTop \/ Tick \/ Return

SpecClock == InitClock /\ [][NextClock]_vars

\* A call of the memory engine's top_customers has returned rows or none.
ClockTopReturned ==
    /\ ~Idle
    /\ result.op = "memory.calculate"
    /\ result.out.value.success

\* The cached orders of customer c that are no older than the cutoff.
CachedSince(c, cutoff) ==
    {o \in orders_df.rows :
        o.mobile_number = c.mobile_number /\ o.order_date_time >= cutoff}

\* C22: the memory engine's top_customers counts the cached orders from the
\* time of the call minus days on, that day included, whenever the frames
\* were loaded; so, the frames being kept, a later call counts a subset of
\* the orders an earlier call with the same days counted.
C22_WindowEndsAtTheTimeOfTheCall ==
    ClockTopReturned =>
        LET data == result.out.value.data
            cutoff == now - result.params.days
        IN /\ {data[i].customer_id : i \in DOMAIN data}
                = {c.customer_id : c \in {c \in customers_df.rows :
                                             CachedSince(c, cutoff) # {}}}
           /\ \A i \in DOMAIN data : \A c \in customers_df.rows :
                c.customer_id = data[i].customer_id =>
                    data[i].order_count = Cardinality(CachedSince(c, cutoff))
           /\ \A c \in customers_df.rows : \A t \in StartDay..now :
                CachedSince(c, cutoff) \subseteq CachedSince(c, t - result.params.days)

\* A call made after the load leaves out an order that a call at the time
\* of the load counted.
C22_Witness ==
    /\ ClockTopReturned
    /\ last_loaded.v < now
    /\ \E o \in orders_df.rows : \E c \in customers_df.rows :
        /\ o.mobile_number = c.mobile_number
        /\ o.order_date_time >= last_loaded.v - result.params.days
        /\ o.order_date_time < now - result.params.days
        /\ \A i \in DOMAIN result.out.value.data :
            result.out.value.data[i].customer_id # c.customer_id

\* A call made after the load counts an order placed exactly days before
\* the call.
C22_CutoffCase ==
    /\ ClockTopReturned
    /\ last_loaded.v < now
    /\ \E o \in orders_df.rows : \E i \in DOMAIN result.out.value.data :
        \E c \in customers_df.rows :
            /\ c.customer_id = result.out.value.data[i].customer_id
            /\ o.mobile_number = c.mobile_number
            /\ o.order_date_time = now - result.params.days
            /\ CachedSince(c, now - result.params.days) = {o}

(***************************************************************************)
(* load_data() run statement by statement in one thread while another      *)
(* thread computes KPIs on the engine's frames and the pipelines change    *)
(* the store.  loading counts the loads begun and remembers which of them  *)
(* assigned each frame.                                                    *)
(***************************************************************************)
MaxLoads == 2

\* An order of the second customer mobile.
XmlOrderB ==
    [XmlOrderA EXCEPT !.order_id = Val(OrderKeys[2]), !.mobile_number = Val(MobileB)]

RaceCsvFile == [readable |-> TRUE, has_columns |-> TRUE, rows |-> <<CsvRowB>>]
RaceXmlFile == [readable |-> TRUE, orders |-> <<XmlOrderB>>]

InitRace ==
    /\ customers = {CustomerRow(1, <<1, 1>>)}
    /\ orders = {OrderRow(1, <<1, 1, 1>>)}
    /\ customers_df = NoneFrame
    /\ orders_df = NoneFrame
    /\ last_loaded = NeverLoaded
    /\ now = StartDay
    /\ result = NoResult
    /\ first_run = NoRun
    /\ loading = NoLoad
    /\ pool = PoolInit
    /\ callers = CallersInit

\* load_data() up to and including self.customers_df = ..., or up to the
\* customers query raising.
LoadCustomersStep ==
    /\ loading.pc = "idle"
    /\ loading.loads < MaxLoads
    /\ \/ /\ SetMemoryState(AssignCustomers(MemoryState, customers))
          /\ loading' = [loading EXCEPT !.pc = "customers_assigned",
                                        !.loads = @ + 1,
                                        !.customers_from = loading.loads + 1,
                                        !.returned = Null]
       \/ /\ UNCHANGED engine_vars
          /\ loading' = [loading EXCEPT !.loads = @ + 1, !.returned = Val(FALSE)]
    /\ UNCHANGED <<customers, orders, now, result, first_run, pool_vars>>

\* The rest of load_data(): the orders query, self.orders_df = ...,
\* self.last_loaded = ..., return True; or the orders query raising.
LoadOrdersStep ==
    /\ loading.pc = "customers_assigned"
    /\ \/ /\ SetMemoryState(AssignOrders(MemoryState, orders, now))
          /\ loading' = [loading EXCEPT !.pc = "idle",
                                        !.orders_from = loading.loads,
                                        !.returned = Val(TRUE)]
       \/ /\ UNCHANGED engine_vars
          /\ loading' = [loading EXCEPT !.pc = "idle", !.returned = Val(FALSE)]
    /\ UNCHANGED <<customers, orders, now, result, first_run, pool_vars>>

\* A calculation that merges the two frames, called by another thread once
\* both frames are there.
RaceKpi ==
    /\ Idle
    /\ ~IsNone(customers_df)
    /\ ~IsNone(orders_df)
    /\ \E name \in {"repeat_customers", "regional_revenue"} :
        \E r \in MemoryCalculate(name, MemoryState, customers, orders,
                                 DefaultParams, "none", now) :
            /\ SetMemoryState(r.ms)
            /\ result' = [op |-> "memory.calculate", name |-> name,
                          params |-> DefaultParams, out |-> Returned(r.ret),
                          frames |-> [customers_from |-> loading.customers_from,
                                      orders_from |-> loading.orders_from]]
    /\ UNCHANGED <<customers, orders, now, first_run, loading, pool_vars>>

RaceCsv ==
    /\ Idle
    /\ \E run \in RunChoices : RunProcessCsv(RaceCsvFile, run[1], run[2])
    /\ UNCHANGED <<orders, engine_vars, now, first_run, loading, pool_vars>>

RaceXml ==
    /\ Idle
    /\ \E run \in RunChoices : RunProcessXml(RaceXmlFile, run[1], run[2])
    /\ UNCHANGED <<customers, engine_vars, now, first_run, loading, pool_vars>>

NextRace ==
    \/ LoadCustomersStep
    \/ LoadOrdersStep
    \/ RaceKpi
    \/ RaceCsv
    \/ RaceXml
    \/ Return

SpecRace == InitRace /\ [][NextRace]_vars

\* C23: load_data() replaces the cached frames in two separate steps with
\* nothing to keep other threads out between them: its first step puts the
\* store's customers into customers_df and leaves orders_df (and
\* last_loaded) as the load before left them, and only its second step
\* replaces orders_df; so between the two a calculation of another thread
\* joins the customers of this load with the orders of the previous one.
C23_LoadReplacesTheFramesInTwoSteps ==
    [][/\ (loading.pc = "idle" /\ loading'.pc = "customers_assigned") =>
            /\ customers_df' = Frame(customers)
            /\ orders_df' = orders_df
            /\ last_loaded' = last_loaded
       /\ (loading.pc = "customers_assigned" /\ loading'.returned = Val(TRUE)) =>
            /\ customers_df' = customers_df
            /\ orders_df' = Frame(orders)
       /\ (loading.pc = "customers_assigned" /\ result' # result
                /\ result'.op = "memory.calculate") =>
            /\ result'.frames.customers_from = loading.loads
            /\ result'.frames.orders_from < loading.loads
            /\ UNCHANGED engine_vars]_vars

\* A calculation has joined the customers of the second load, which are
\* the store's, with the orders of the first, which are no longer the
\* store's, and returned rows.
C23_Witness ==
    /\ ~Idle
    /\ result.op = "memory.calculate"
    /\ loading.pc = "customers_assigned"
    /\ result.frames.orders_from > 0
    /\ result.frames.customers_from > result.frames.orders_from
    /\ customers_df.rows = customers
    /\ orders_df.rows # orders
    /\ \E c \in customers_df.rows : \E o \in orders :
        /\ c.mobile_number = o.mobile_number
        /\ \A o2 \in orders_df.rows : o2.mobile_number # c.mobile_number
    /\ result.out.value.success
    /\ result.out.value.data # <<>>

(***************************************************************************)
(* The clean stage of each pipeline on its own, applied to what the        *)
(* validate stage lets through: rows and orders with repeated keys, padded *)
(* keys, an empty name and a sku_count that is not a whole number.         *)
(***************************************************************************)
CleanCsvInputs ==
    {df \in {[readable |-> TRUE, has_columns |-> TRUE, rows |-> rows] :
                rows \in SeqsUpTo({CsvRowA, CsvRowA2, CsvRowB, CsvRowNoName},
                                  MaxFileRows + 1)} :
        ValidateDataframe(df).is_valid}

CleanXmlInputs ==
    {os \in SeqsUpTo({XmlOrderA, XmlOrderA2, XmlOrderFraction, XmlOrderB},
                     MaxFileRows + 1) :
        ValidateOrders(os).is_valid}

\* csv_loader.clean_dataframe(df)
CleanCsv ==
    /\ Idle
    /\ \E df \in CleanCsvInputs :
        result' = [op |-> "clean_dataframe", input |-> df.rows,
                   out |-> Returned(CustomerTuples(CleanDataframe(df)))]
    /\ UNCHANGED <<customers, orders, engine_vars, now, first_run, loading,
                   pool_vars>>

\* xml_loader.clean_orders(orders)
CleanXml ==
    /\ Idle
    /\ \E os \in CleanXmlInputs :
        result' = [op |-> "clean_orders", input |-> os,
                   out |-> Returned(CleanOrders(os))]
    /\ UNCHANGED <<customers, orders, engine_vars, now, first_run, loading,
                   pool_vars>>

NextClean == CleanCsv \/ CleanXml \/ Return

SpecClean == InitCache /\ [][NextClean]_vars

\* The primary key column of the stage that ran, the trimmed key of an
\* input row, and the first input row that has a given key.
CleanKey == IF result.op = "clean_dataframe" THEN "customer_id" ELSE "order_id"
TrimmedKey(row) == Strip(Str(row[CleanKey]))
FirstWithKey(k) ==
    CHOOSE j \in DOMAIN result.input :
        /\ TrimmedKey(result.input[j]) = k
        /\ \A h \in 1..(j - 1) : TrimmedKey(result.input[h]) # k

\* The clean stage applied to one input row alone.
CleanedAlone(row) ==
    IF result.op = "clean_dataframe"
    THEN CustomerTuples(CleanDataframe([rows |-> <<row>>]))
    ELSE CleanOrders(<<row>>)

\* The output has one row per key at most, and its rows are cleaned input
\* rows in the order of the input.
OnePerKeyInInputOrder ==
    LET out == result.out.value
    IN /\ \A i, j \in DOMAIN out : i < j => out[i][CleanKey] # out[j][CleanKey]
       /\ \E f \in [DOMAIN out -> DOMAIN result.input] :
            /\ \A i, j \in DOMAIN out : i < j => f[i] < f[j]
            /\ \A i \in DOMAIN out : CleanedAlone(result.input[f[i]]) = <<out[i]>>

\* Each output row is the cleaned form of the earliest input row of its key.
KeptIsEarliest ==
    LET out == result.out.value
    IN \A i \in DOMAIN out :
        CleanedAlone(result.input[FirstWithKey(out[i][CleanKey])]) = <<out[i]>>

CleanReturned ==
    ~Idle /\ result.op \in {"clean_dataframe", "clean_orders"}

\* C24: the clean stage of both pipelines outputs at most one row per
\* primary key, the keys compared after trimming; the row kept for a key
\* is the earliest row of that key in the input, and the kept rows are in
\* input order.
C24_CleanKeepsTheEarliestRowPerKey ==
    CleanReturned => OnePerKeyInInputOrder /\ KeptIsEarliest

\* The CSV clean stage does so.
C24_CsvKeepsTheEarliest ==
    (CleanReturned /\ result.op = "clean_dataframe") =>
        OnePerKeyInInputOrder /\ KeptIsEarliest

\* The XML clean stage outputs at most one order per key, in input order.
C24_XmlOnePerKey ==
    (CleanReturned /\ result.op = "clean_orders") => OnePerKeyInInputOrder

\* A repeated customer_id whose first row was kept and whose later row,
\* with other values, was dropped.
C24_CsvCase ==
    /\ CleanReturned
    /\ result.op = "clean_dataframe"
    /\ \E i, j \in DOMAIN result.input :
        /\ i < j
        /\ TrimmedKey(result.input[i]) = TrimmedKey(result.input[j])
        /\ result.input[i] # result.input[j]
        /\ CleanedAlone(result.input[i]) # CleanedAlone(result.input[j])
        /\ \E h \in DOMAIN result.out.value :
            <<result.out.value[h]>> = CleanedAlone(result.input[i])

\* An order kept although an earlier order of the file has its order_id.
C24_XmlLaterKept ==
    /\ CleanReturned
    /\ result.op = "clean_orders"
    /\ ~KeptIsEarliest

(***************************************************************************)
(* monthly_trends of both engines over a store whose orders fall in two    *)
(* calendar months, some of them placed by a mobile number that no         *)
(* customer has.                                                           *)
(***************************************************************************)
MonthDays == <<59, 20>>

MonthOrderRow(i, ch) ==
    [order_id |-> OrderKeys[i], mobile_number |-> OrderMobiles[ch[1]],
     order_date_time |-> MonthDays[ch[2]], sku_id |-> SkuX, sku_count |-> 1,
     total_amount |-> Amounts[1]]

MonthOrderChoices ==
    {<<m, d>> : m \in DOMAIN OrderMobiles, d \in DOMAIN MonthDays}

MonthOrderTables == TableContents(MaxOrders, MonthOrderChoices, MonthOrderRow)

InitMonthly ==
    /\ customers = ClockCustomers
    /\ orders \in MonthOrderTables
    /\ customers_df = NoneFrame
    /\ orders_df = NoneFrame
    /\ last_loaded = NeverLoaded
    /\ now = StartDay
    /\ result = NoResult
    /\ first_run = NoRun
    /\ loading = NoLoad
    /\ pool = PoolInit
    /\ callers = CallersInit

\* table_kpi_engine.calculate_kpi('monthly_trends')
TableMonthly ==
    /\ Idle
    /\ \E out \in TableCalculateKpi("monthly_trends", customers, orders,
                                    DefaultParams, FALSE, now) :
        result' = [op |-> "table.calculate_kpi", name |-> "monthly_trends",
                   params |-> DefaultParams, failing |-> FALSE, out |-> out]
    /\ UNCHANGED <<customers, orders, engine_vars, now, first_run, loading,
                   pool_vars>>

\* memory_kpi_engine.calculate_monthly_trends()
MemoryMonthly ==
    /\ Idle
    /\ \E r \in CalculateMonthlyTrends(MemoryState, customers, orders, "none", now) :
        /\ SetMemoryState(r.ms)
        /\ result' = [op |-> "memory.calculate", name |-> "monthly_trends",
                      params |-> DefaultParams, out |-> Returned(r.ret)]
    /\ UNCHANGED <<customers, orders, now, first_run, loading, pool_vars>>

NextMonthly == TableMonthly \/ MemoryMonthly \/ Return

SpecMonthly == InitMonthly /\ [][NextMonthly]_vars

\* monthly_trends has returned its rows.
MonthlyReturned ==
    /\ ~Idle
    /\ result.name = "monthly_trends"
    /\ result.out.value.success

OrdersOfMonth(m) == {o \in orders : MonthOf(o.order_date_time) = m}

\* C25: the rows that monthly_trends of either engine returns are one per
\* calendar month in which the store has an order, in strictly ascending
\* month order; a row's total_orders is the number of orders of its month,
\* those of unknown mobile numbers included, its unique_customers the
\* number of distinct mobile numbers among them, and the total_orders of
\* all rows add up to the number of orders in the store.
C25_MonthlyRowsCountEveryOrder ==
    MonthlyReturned =>
        LET data == result.out.value.data
        IN /\ {data[i].month_year : i \in DOMAIN data}
                = {MonthOf(o.order_date_time) : o \in orders}
           /\ \A i, j \in DOMAIN data : i < j => data[i].month_year < data[j].month_year
           /\ \A i \in DOMAIN data :
                /\ data[i].total_orders = Cardinality(OrdersOfMonth(data[i].month_year))
                /\ data[i].unique_customers
                    = Cardinality({o.mobile_number : o \in OrdersOfMonth(data[i].month_year)})
           /\ SumColumn(data, "total_orders") = Cardinality(orders)

\* The table engine returned two months, one of them for an order of a
\* mobile number that no customer has.
C25_Witness ==
    /\ MonthlyReturned
    /\ result.op = "table.calculate_kpi"
    /\ Len(result.out.value.data) = 2
    /\ \E i \in DOMAIN result.out.value.data :
        /\ result.out.value.data[i].total_orders = 1
        /\ \A o \in OrdersOfMonth(result.out.value.data[i].month_year) :
            \A c \in customers : c.mobile_number # o.mobile_number

\* The memory engine returned one month with two orders of one mobile
\* number.
C25_MemoryCase ==
    /\ MonthlyReturned
    /\ result.op = "memory.calculate"
    /\ \E i \in DOMAIN result.out.value.data :
        /\ result.out.value.data[i].total_orders = 2
        /\ result.out.value.data[i].unique_customers = 1

(***************************************************************************)
(* Append mode and the rows the file does not mention.                     *)
(***************************************************************************)
\* A pipeline has run in append mode.
AppendRan ==
    /\ ~Idle
    /\ result.op \in {"process_csv", "process_xml"}
    /\ result.mode = "append"

\* The primary keys that occur in the file of the run, trimmed.
FileKeys ==
    IF result.op = "process_csv"
    THEN {Strip(Str(result.file.rows[i].customer_id)) : i \in DOMAIN result.file.rows}
    ELSE {Strip(Str(result.file.orders[i].order_id)) : i \in DOMAIN result.file.orders}

StoredKey(r) == IF result.op = "process_csv" THEN r.customer_id ELSE r.order_id

\* C26: process_csv and process_xml in append mode remove no row: a row
\* that was in the target table before the call and whose key does not
\* occur in the file is in the table after the call with all its fields as
\* they were, whether the call succeeded or failed.
C26_AppendKeepsUnmentionedRows ==
    AppendRan =>
        \A r \in result.before : StoredKey(r) \notin FileKeys => r \in TargetTable

\* A successful append that changed the table and kept a row the file does
\* not mention.
C26_Witness ==
    /\ AppendRan
    /\ result.out.value.success
    /\ TargetTable # result.before
    /\ \E r \in result.before : StoredKey(r) \notin FileKeys /\ r \in TargetTable

\* A failed append of orders that kept the rows of the table.
C26_FailedCase ==
    /\ AppendRan
    /\ result.op = "process_xml"
    /\ result.fault = "upsert"
    /\ result.stage = "store"
    /\ ~result.out.value.success
    /\ \E r \in result.before : StoredKey(r) \notin FileKeys /\ r \in TargetTable

(***************************************************************************)
(* The result dictionary of a pipeline run.                                *)
(***************************************************************************)
PipelineRan == ~Idle /\ result.op \in {"process_csv", "process_xml"}

\* The number of cleaned rows the run sent to the store.
SentCount ==
    IF result.op = "process_csv" THEN Len(SentCustomers) ELSE Len(SentOrders)

\* C27: on every exit path of process_csv and process_xml the result is
\* consistent: success goes with no errors and with records_loaded equal to
\* the number of cleaned rows sent to the store (which in replace mode is
\* the number of rows the table then has); failure goes with
\* records_loaded = 0 and at least one error; and duration is the elapsed
\* time in every case, the early returns included.
C27_ResultIsConsistent ==
    PipelineRan =>
        LET r == result.out.value
        IN /\ ~result.out.raised
           /\ r.success =>
                /\ r.errors = <<>>
                /\ r.records_loaded = SentCount
                /\ result.stage = "store"
                /\ result.mode = "replace" => r.records_loaded = Cardinality(TargetTable)
           /\ ~r.success => r.records_loaded = 0 /\ r.errors # <<>>
           /\ r.duration = "elapsed"

\* A run that returned early, from its validate stage, with its errors, no
\* records and its duration.
C27_Witness ==
    /\ PipelineRan
    /\ result.stage = "validate"
    /\ ~result.out.value.success
    /\ result.out.value.records_loaded = 0
    /\ Len(result.out.value.errors) > 0
    /\ result.out.value.duration = "elapsed"

\* A run that loaded fewer rows than its file has.
C27_SuccessCase ==
    /\ PipelineRan
    /\ result.out.value.success
    /\ result.out.value.records_loaded = 1
    /\ result.op = "process_csv"
    /\ Len(result.file.rows) = 2

(***************************************************************************)
(* What validate_orders accepts and what clean_orders keeps.               *)
(***************************************************************************)
XmlSucceeded ==
    /\ ~Idle
    /\ result.op = "process_xml"
    /\ result.out.value.success

\* The distinct order_ids of the file of the run, trimmed.
DistinctOrderIds ==
    {Strip(Str(result.file.orders[i].order_id)) : i \in DOMAIN result.file.orders}

\* sku_count is written as a whole number.
WholeSkuCount(order) == ~IsNull(ParseInt(order.sku_count))

\* C28: validate_orders and clean_orders agree on what a valid order is:
\* every order of a file that passed validation is kept by cleaning unless
\* an earlier order has its order_id, so a successful process_xml reports
\* as records_loaded the number of distinct order_ids of the file.
C28_ValidatedOrdersAreKept ==
    XmlSucceeded =>
        /\ result.out.value.records_loaded = Cardinality(DistinctOrderIds)
        /\ \A i \in DOMAIN result.file.orders :
            \E j \in DOMAIN SentOrders :
                SentOrders[j].order_id = Strip(Str(result.file.orders[i].order_id))

\* It is so for the files whose sku_counts are all whole numbers.
C28_WholeCountsAreKept ==
    (XmlSucceeded /\ \A i \in DOMAIN result.file.orders :
                        WholeSkuCount(result.file.orders[i])) =>
        /\ result.out.value.records_loaded = Cardinality(DistinctOrderIds)
        /\ \A i \in DOMAIN result.file.orders :
            \E j \in DOMAIN SentOrders :
                SentOrders[j].order_id = Strip(Str(result.file.orders[i].order_id))

\* A successful run that reports fewer records than its file has order_ids:
\* an order with sku_count 2.5 passed validation and was skipped by
\* cleaning.
C28_SilentlySkipped ==
    /\ XmlSucceeded
    /\ result.out.value.records_loaded < Cardinality(DistinctOrderIds)
    /\ \E i \in DOMAIN result.file.orders :
        /\ OrderErrors(result.file.orders[i]) = <<>>
        /\ ~WholeSkuCount(result.file.orders[i])

(***************************************************************************)
(* load_data() that fails.                                                 *)
(***************************************************************************)
\* C29: a load_data() that fails, at its customers query or at its orders
\* query after the customers query succeeded, leaves customers_df,
\* orders_df and last_loaded exactly as they were before the call.
C29_FailedLoadLeavesTheCache ==
    [][(result' # result /\ result'.op = "memory.load_data" /\ ~result'.out.value)
            => UNCHANGED engine_vars]_vars

\* A load that fails at its customers query leaves them so.
C29_FailedCustomersQueryLeavesTheCache ==
    [][(result' # result /\ result'.op = "memory.load_data"
            /\ result'.fault = "customers_query") => UNCHANGED engine_vars]_vars

\* A load that failed at its orders query on a cache loaded earlier: the
\* customers frame is the store's of now, the orders frame and last_loaded
\* are those of the earlier load.
C29_MixedCache ==
    /\ ~Idle
    /\ result.op = "memory.load_data"
    /\ result.fault = "orders_query"
    /\ ~result.out.value
    /\ ~IsNull(last_loaded)
    /\ customers_df = Frame(customers)
    /\ customers # {}
    /\ orders_df # Frame(orders)

(***************************************************************************)
(* The memory engine on empty tables.                                      *)
(***************************************************************************)
\* One of the memory engine's four calculations has returned, on frames
\* that hold what the store holds.
MemoryComputedOnStore ==
    /\ ~Idle
    /\ result.op = "memory.calculate"
    /\ LoadedFromStore

\* C30: on a store with customers and no orders, or with no rows at all,
\* each of the memory engine's four KPIs returns, after load_data(), a
\* success envelope with as many rows as the table engine's, none but for
\* the regions of regional_revenue: an empty table does not make a
\* calculation fail.
C30_EmptyTablesGiveEmptyResults ==
    (MemoryComputedOnStore /\ orders = {}) =>
        /\ result.out.value.success
        /\ \A e \in KpiCalculate(result.name, customers, orders, result.params,
                                 FALSE, now) :
            /\ e.success
            /\ Len(result.out.value.data) = Len(e.data)
            /\ result.name # "regional_revenue" => result.out.value.data = <<>>

\* On a store with at least one customer and one order each calculation
\* returns a success envelope.
C30_NonEmptyTablesSucceed ==
    (MemoryComputedOnStore /\ customers # {} /\ orders # {}) =>
        result.out.value.success

\* Customers, no orders, frames loaded: the memory engine returned a
\* failure envelope where the table engine returns a success envelope.
C30_FailureOnEmptyOrders ==
    /\ MemoryComputedOnStore
    /\ customers # {}
    /\ orders = {}
    /\ ~result.out.value.success
    /\ \A e \in KpiCalculate(result.name, customers, orders, result.params,
                             FALSE, now) : e.success

====
